---- MODULE Spec2Model ----
(***************************************************************************)
(* Model of the preoomkiller controller service                            *)
(* (internal/logic/controller/service.go): the reconcile loop, the         *)
(* scheduled-restart handler, the timer map, the threshold handler, the    *)
(* eviction call and Shutdown, together with the cluster they act on.      *)
(*                                                                         *)
(* Time is an integer number of seconds.  Every repository call is one     *)
(* step (the request leaves the service); its answer is consumed by the    *)
(* next step of the same task, so other tasks and the clock interleave     *)
(* with a call in progress.                                                *)
(***************************************************************************)
EXTENDS Integers, Sequences, FiniteSets, TLC

\* ---- configuration of the service (seconds) ----
Interval == 2
JitterMax == 1
PacingDelay == 1
MinPodAge == 2

\* ---- bounds of the model ----
MaxTime == 5
MaxTimers == 2
\* the clock's range when the health probe is exercised
MaxPingTime == 7
\* the period of the cron expression the targets carry
CronPeriod == 5
\* the instant RunCommand starts at; targets exist before it
BootTime == Interval

\* the pods of the cluster, in the order ListPodsQuery returns them
Keys == {"ns/a", "ns/b"}
KeyOrder == <<"ns/a", "ns/b">>

Max(a, b) == IF a >= b THEN a ELSE b

\* ---- the restart-at annotation ----
NoAnn == [kind |-> "none", sec |-> 0]
BadAnn == [kind |-> "bad", sec |-> 0]

\* the annotation key the engine manages
PreoomkillerAnnotationRestartAtKey == "preoomkiller.beta.k8s.skillcoder.com/restart-at"

\* (mutant) the instant is rendered as the empty string
FormatEmpty(t) == NoAnn

\* nextRun.Format(time.RFC3339): second precision, instants are whole seconds
FormatRFC3339(t) == [kind |-> "ts", sec |-> t]

\* time.Parse(time.RFC3339, s): <<ok, instant>>
ParseRFC3339(a) == IF a.kind = "ts" THEN <<TRUE, a.sec>> ELSE <<FALSE, 0>>

\* ---- cron ----
\* A schedule annotation: an optional inline CRON_TZ=/TZ= prefix and five fields.
Zones == {"", "UTC", "Nowhere"}
Schedules == [prefix : Zones, fields : {"ok", "bad"}]

\* buildSpec: the zone the expression is evaluated in
buildSpec(spec, tz) ==
    IF tz # "" /\ spec.prefix = "" THEN [zone |-> tz, fields |-> spec.fields]
    ELSE IF spec.prefix = "" THEN [zone |-> "UTC", fields |-> spec.fields]
    ELSE [zone |-> spec.prefix, fields |-> spec.fields]

\* schedule.Next(after): the next matching instant strictly after `after`
CronNext(after) == ((after \div CronPeriod) + 1) * CronPeriod

\* Parser.NextAfter: <<ok, instant>>
NextAfter(spec, tz, after) ==
    LET full == buildSpec(spec, tz)
    IN IF full.fields = "bad" \/ full.zone = "Nowhere"
       THEN <<FALSE, 0>>
       ELSE <<TRUE, CronNext(after)>>

VARIABLES
    now,                  \* wall clock
    tickPending,          \* ticker.C holds a tick (buffer of one)
    ctxDone,              \* the run context is cancelled
    inShutdown,           \* Service.inShutdown
    ready,                \* Service.ready is closed
    doneCh,               \* Service.doneCh is closed
    lastReconcileEndTime, \* Service.lastReconcileEndTime
    podCfg,               \* per pod: which user annotations it carries
    cluster,              \* per pod: creation time, restart-at annotation
    pods,                 \* the list ReconcileCommand is iterating
    rc,                   \* the reconcile goroutine: position and locals
    timers,               \* every time.AfterFunc timer created so far
    nextTimer,            \* number of timers created
    pendingTimers,        \* Service.pendingTimers: key -> timer (0: absent)
    inFlightWg,           \* Service.inFlightWg counter
    sd,                   \* the Shutdown call: position
    lastCall,             \* what the last step did: the repository call it
                          \* issued, or the decision it took without one
    state,                \* AppState.state
    appCall,              \* the AppState request that returned last
    graceful,             \* AppState.shutdowners and the GracefulShutdown call
    allClose,             \* the allChannelsClose call: inputs, goroutines, out
    locks                 \* who holds Service.timerMu and Service.mu

vars == <<now, tickPending, ctxDone, inShutdown, ready, doneCh,
          lastReconcileEndTime, podCfg, cluster, pods, rc, timers, nextTimer,
          pendingTimers, inFlightWg, sd, lastCall, state, appCall, graceful, allClose,
          locks>>

\* the application around the controller service
infraVars == <<state, appCall, graceful, allClose>>

\* the variables of the controller service and its cluster
serviceVars == <<now, tickPending, inShutdown, ready, doneCh, lastReconcileEndTime,
                 podCfg, cluster, pods, rc, timers, nextTimer, pendingTimers,
                 inFlightWg, sd, lastCall, locks>>


\* ---- memory threshold ----
percentScale == 100

\* The memory-threshold annotation: a quantity, a percentage, or garbage.
ThresholdAnns ==
    {[kind |-> "bad", n |-> 0]}
      \cup [kind : {"abs"}, n : {0, 1}]
      \cup [kind : {"pct"}, n : {0, percentScale, percentScale + 1}]

\* Pod.MemoryLimit: nil, or a quantity
MemoryLimits == {[set |-> FALSE, bytes |-> 0], [set |-> TRUE, bytes |-> 0],
                 [set |-> TRUE, bytes |-> 1]}

\* ---- float64 arithmetic ----
\* A positive float64 is a significand, written as a bit string with the most
\* significant bit first, and a binary exponent: the value is m * 2^e.
\* Bit strings keep every intermediate value at its full width.
float64Bits == 53

Front(bits) == SubSeq(bits, 1, Len(bits) - 1)

RECURSIVE NatBits(_)
NatBits(n) == IF n = 0 THEN <<>> ELSE NatBits(n \div 2) \o <<n % 2>>

RECURSIVE BitsNat(_)
BitsNat(bits) == IF bits = <<>> THEN 0 ELSE 2 * BitsNat(Front(bits)) + bits[Len(bits)]

RECURSIVE Incr(_)
Incr(bits) ==
    IF bits = <<>> THEN <<1>>
    ELSE IF bits[Len(bits)] = 0 THEN Front(bits) \o <<1>>
    ELSE Incr(Front(bits)) \o <<0>>

\* binary long division: the next k bits of r / d (r < d)
RECURSIVE DivBits(_, _, _)
DivBits(r, d, k) ==
    IF k = 0 THEN <<>>
    ELSE IF 2 * r >= d THEN <<1>> \o DivBits(2 * r - d, d, k - 1)
    ELSE <<0>> \o DivBits(2 * r, d, k - 1)

\* the remainder of that division
RECURSIVE DivRem(_, _, _)
DivRem(r, d, k) ==
    IF k = 0 THEN r
    ELSE IF 2 * r >= d THEN DivRem(2 * r - d, d, k - 1)
    ELSE DivRem(2 * r, d, k - 1)

\* the zero bits of r / d (0 < r < d) after the binary point, before the first one
RECURSIVE LeadingZeros(_, _)
LeadingZeros(r, d) == IF 2 * r >= d THEN 0 ELSE 1 + LeadingZeros(2 * r, d)

RECURSIVE StripZeros(_)
StripZeros(bits) ==
    IF bits # <<>> /\ bits[1] = 0 THEN StripZeros(Tail(bits)) ELSE bits

\* bits * k + carry for a small k (below 2^14), sixteen bits at a time from
\* the low end
RECURSIVE MulSmall(_, _, _)
MulSmall(bits, k, carry) ==
    IF bits = <<>> THEN NatBits(carry)
    ELSE LET n == Len(bits)
             w == IF n < 16 THEN n ELSE 16
             v == BitsNat(SubSeq(bits, n - w + 1, n)) * k + carry
             low == NatBits(v % (2 ^ w))
         IN MulSmall(SubSeq(bits, 1, n - w), k, v \div (2 ^ w))
              \o [i \in 1..(w - Len(low)) |-> 0] \o low

\* round-to-nearest-even of the exact value bits * 2^e (plus a non-zero rest
\* below the last bit when `sticky`) to a float64
RoundNearestEven(bits, sticky, e) ==
    IF Len(bits) <= float64Bits THEN [m |-> bits, e |-> e]
    ELSE LET keep == SubSeq(bits, 1, float64Bits)
             guard == bits[float64Bits + 1]
             rest == sticky \/ \E i \in (float64Bits + 2)..Len(bits) : bits[i] = 1
             up == guard = 1 /\ (rest \/ keep[float64Bits] = 1)
         IN [m |-> IF up THEN Incr(keep) ELSE keep,
             e |-> e + Len(bits) - float64Bits]

\* the float64 quotient n / d of two small positive integers
Float64Div(n, d) ==
    LET q == n \div d
        r == n % d
        k == IF r = 0 THEN 0
             ELSE (IF q = 0 THEN LeadingZeros(r, d) ELSE 0) + float64Bits + 1
    IN RoundNearestEven(StripZeros(NatBits(q) \o DivBits(r, d, k)),
                        DivRem(r, d, k) # 0, 0 - k)

\* the float64 product of a small positive integer (exact as a float64) and f
Float64Mul(n, f) == RoundNearestEven(StripZeros(MulSmall(f.m, n, 0)), FALSE, f.e)

\* int64(f): the fraction is discarded
Int64(f) ==
    IF f.e >= 0 THEN BitsNat(f.m \o [i \in 1..f.e |-> 0])
    ELSE IF Len(f.m) + f.e <= 0 THEN 0
    ELSE BitsNat(SubSeq(f.m, 1, Len(f.m) + f.e))

\* (mutant) a missing or zero limit is reported as a parse error
resolveFromPercentLimitRequired(percent, memoryLimit) ==
    IF percent <= 0 \/ percent > percentScale THEN [st |-> "parseErr", bytes |-> 0]
    ELSE IF ~memoryLimit.set \/ memoryLimit.bytes = 0
         THEN [st |-> "parseErr", bytes |-> 0]
    ELSE [st |-> "ok",
          bytes |-> Int64(Float64Mul(memoryLimit.bytes, Float64Div(percent, percentScale)))]

\* resolveMemoryThresholdFromPercent: limit * (percent / 100) is computed in
\* float64 and converted to int64.  AsApproximateFloat64 is exact for the
\* limits used here.
resolveMemoryThresholdFromPercent(percent, memoryLimit) ==
    IF percent <= 0 \/ percent > percentScale THEN [st |-> "parseErr", bytes |-> 0]
    ELSE IF ~memoryLimit.set \/ memoryLimit.bytes = 0
         THEN [st |-> "noLimit", bytes |-> 0]
    ELSE [st |-> "ok",
          bytes |-> Int64(Float64Mul(memoryLimit.bytes, Float64Div(percent, percentScale)))]

\* resolveMemoryThreshold (the annotation is present: reconcileOnePod checked)
resolveMemoryThreshold(ann, memoryLimit) ==
    IF ann.kind = "pct" THEN resolveMemoryThresholdFromPercent(ann.n, memoryLimit)
    ELSE IF ann.kind = "bad" THEN [st |-> "parseErr", bytes |-> 0]
    ELSE [st |-> "ok", bytes |-> ann.n]

\* GetPodMetricsQuery answers
MetricsResults ==
    {[st |-> "notfound", set |-> FALSE, bytes |-> 0],
     [st |-> "error", set |-> FALSE, bytes |-> 0],
     [st |-> "ok", set |-> FALSE, bytes |-> 0]}
      \cup [st : {"ok"}, set : {TRUE}, bytes : {0, 1, 2}]

\* (mutant) metrics that are not found are an error like any other
getPodMemoryUsageNotFoundFails(m) ==
    IF m.st \in {"notfound", "error"} THEN <<0, FALSE, TRUE>>
    ELSE IF ~m.set THEN <<0, TRUE, FALSE>>
    ELSE IF m.bytes = 0 THEN <<0, TRUE, FALSE>>
    ELSE <<m.bytes, FALSE, FALSE>>

\* getPodMemoryUsageOrSkip: <<usage, skip, err>>
getPodMemoryUsageOrSkip(m) ==
    IF m.st = "notfound" THEN <<0, TRUE, FALSE>>
    ELSE IF m.st = "error" THEN <<0, FALSE, TRUE>>
    ELSE IF ~m.set THEN <<0, TRUE, FALSE>>
    ELSE IF m.bytes = 0 THEN <<0, TRUE, FALSE>>
    ELSE <<m.bytes, FALSE, FALSE>>

\* (mutant) the comparison taken as "not below"
OverOrEqual(usage, threshold) == usage >= threshold

\* podMemoryUsage.Cmp(podMemoryThreshold) == 1
OverThreshold(usage, threshold) == usage > threshold

\* EvictPodCommand answers
EvictResults == {"ok", "notfound", "toomany", "error"}

\* (mutant) too-many-requests is not recognised and surfaces as an error
evictPodCommandNoRetry(r) ==
    IF r = "ok" THEN <<TRUE, FALSE>>
    ELSE IF r = "notfound" THEN <<FALSE, FALSE>>
    ELSE <<FALSE, TRUE>>

\* Service.evictPodCommand: <<evicted, err>> for a repository answer
evictPodCommand(r) ==
    IF r = "ok" THEN <<TRUE, FALSE>>
    ELSE IF r \in {"notfound", "toomany"} THEN <<FALSE, FALSE>>
    ELSE <<FALSE, TRUE>>

\* ---- repository calls, as seen on the wire ----
NoThrAnn == [kind |-> "none", n |-> 0]
NoLimit == [set |-> FALSE, bytes |-> 0]
NoCall == [op |-> "none", key |-> "", by |-> "", ann |-> "", val |-> NoAnn,
           created |-> 0, tid |-> 0, usage |-> 0, thr |-> 0,
           tann |-> NoThrAnn, limit |-> NoLimit, res |-> "",
           cancelled |-> FALSE, age |-> 0,
           ans |-> "", evicted |-> FALSE, err |-> FALSE]
ListCall == [NoCall EXCEPT !.op = "list", !.by = "reconcile"]
MetricsCall(k) == [NoCall EXCEPT !.op = "metrics", !.key = k, !.by = "threshold"]
PatchCall(k, v) ==
    [NoCall EXCEPT !.op = "patch", !.key = k, !.by = "schedule",
                   !.ann = PreoomkillerAnnotationRestartAtKey, !.val = v]
\* the threshold handler's verdict on a target: the resolved threshold and the
\* usage it compared (0: none), with the eviction request when it made one
Verdict(call, k, usage, thr) ==
    [call EXCEPT !.key = k, !.by = "threshold", !.usage = usage, !.thr = thr]
\* the threshold handler's resolver returned th
Resolved(call, th) == [call EXCEPT !.res = th.st, !.thr = th.bytes]
\* the threshold handler's metrics query returned u = <<usage, skip, err>>
Measured(call, u) == [call EXCEPT !.res = IF u[2] THEN "skip" ELSE ""]
\* `created` is the creation time of the target the eviction is asked for
EvictCall(k, by, created, tid) ==
    [NoCall EXCEPT !.op = "evict", !.key = k, !.by = by, !.created = created, !.tid = tid]

\* the step got an error and logged it
Failure(k, what) == [NoCall EXCEPT !.key = k, !.by = what, !.err = TRUE]
ListFailed == [ListCall EXCEPT !.err = TRUE]
\* the step consumed the repository's answer r to an eviction request: what
\* evictPodCommand returned to its caller
EvictAnswer(k, by, r) ==
    [NoCall EXCEPT !.op = "evictResp", !.key = k, !.by = by, !.ans = r,
                   !.evicted = evictPodCommand(r)[1], !.err = evictPodCommand(r)[2]]

\* ---- timers ----
FreeTimer == [key |-> "", at |-> 0, due |-> 0, st |-> "free", cx |-> FALSE, evicts |-> 0]
TimerIds == 1..MaxTimers

\* time.AfterFunc(delay+jitter, ...) armed now for instant `at`
NewTimer(k, at, t, jitter) ==
    [key |-> k, at |-> at, due |-> t + Max(at - t, 0) + jitter, st |-> "pending",
     cx |-> FALSE, evicts |-> 0]

\* (mutant) the timer is dropped from the map but not stopped
StopTimerNoop(t) == t

\* timer.Stop(): true iff the timer had not fired
StopTimer(t) == IF t.st = "pending" THEN [t EXCEPT !.st = "stopped"] ELSE t

\* ---- the cluster ----
\* adapter.SetAnnotationCommand: a merge patch of metadata.annotations with the
\* one key; the empty value is sent as null and removes the key.  `pod` is the
\* stored pod; of its annotations only restart-at is part of it.
SetAnnotationCommand(pod, key, value) ==
    IF key = PreoomkillerAnnotationRestartAtKey
    THEN [pod EXCEPT !.restartAt = value, !.byEngine = TRUE]
    ELSE pod

Pod(k) == [key |-> k, createdAt |-> cluster[k].createdAt,
           restartAt |-> cluster[k].restartAt, byEngine |-> cluster[k].byEngine,
           hasSched |-> podCfg[k].hasSched, hasThr |-> podCfg[k].hasThr]

RECURSIVE ListPods(_)
ListPods(order) ==
    IF order = <<>> THEN <<>>
    ELSE IF podCfg[Head(order)].listed
         THEN <<Pod(Head(order))>> \o ListPods(Tail(order))
         ELSE ListPods(Tail(order))

InitCluster ==
    [createdAt : {0, BootTime - 1, BootTime},
     restartAt : {NoAnn, BadAnn, FormatRFC3339(BootTime - 1), FormatRFC3339(BootTime + 1)},
     byEngine : {FALSE}, evicted : {FALSE}, limited : {""}]

\* a pod the label selector does not match: the service never sees it
Unlisted == [listed |-> FALSE, hasSched |-> FALSE, hasThr |-> FALSE]
Untouched == [createdAt |-> 0, restartAt |-> NoAnn, byEngine |-> FALSE, evicted |-> FALSE,
              limited |-> ""]

\* ---- appstate.AppState ----
StateInit == "init"
StateStarting == "starting"
StateRunning == "running"
StateTerminating == "terminating"
StateTerminated == "terminated"

ErrInvalidStateTransition == "invalid state transition"
ErrAlreadyTerminated == "application already terminated"
ErrShutdown == "shutdown"
NoErr == ""

\* setState: <<state afterwards, error>>
setState(st, newState) ==
    IF st = StateTerminated THEN <<st, ErrAlreadyTerminated>> ELSE <<newState, NoErr>>

SetStarting(st) ==
    IF st # StateInit THEN <<st, ErrInvalidStateTransition>>
    ELSE setState(st, StateStarting)

\* (mutant) SetRunning is accepted before the application is starting
SetRunningFromInit(st) ==
    IF st \notin {StateInit, StateStarting} THEN <<st, ErrInvalidStateTransition>>
    ELSE setState(st, StateRunning)

SetRunning(st) ==
    IF st # StateStarting THEN <<st, ErrInvalidStateTransition>>
    ELSE setState(st, StateRunning)

SetTerminating(st) ==
    IF st = StateTerminated THEN <<st, ErrAlreadyTerminated>>
    ELSE setState(st, StateTerminating)

\* a request to the AppState that has returned: the state it found, its error
Returned(op, from, err) == [op |-> op, from |-> from, err |-> err]
NoAppCall == Returned("", "", NoErr)

\* ---- shutdown.GracefulShutdown ----
MaxShutdowners == 3

\* context.WithoutCancel(originCtx): is the derived context cancelled
WithoutCancel(originCancelled) == FALSE

\* (mutant) the loop ends at the first component that fails
NextComponentUnlessFailed(i, failed) == IF failed THEN 0 ELSE i - 1

\* the loop over the shutdowners: after component i (`continue` on failure)
NextComponent(i, failed) == i - 1

\* errors.Join over the collected errors: nil iff there is none
JoinErrors(errs) == IF errs = <<>> THEN NoErr ELSE ErrShutdown

\* n components are registered; no call of GracefulShutdown yet
NoGraceful(n) == [pc |-> "idle", n |-> n, i |-> 0, from |-> "",
                  called |-> <<>>, errs |-> <<>>]

\* ---- app.allChannelsClose ----
MaxChannels == 3
Channels == 1..MaxChannels

\* (mutant) the goroutine closes out as soon as one channel has signalled
ClosesOutAtFirst(n, targetCount) == n >= 1

\* readyCount.Add(1) == targetCount
ClosesOut(n, targetCount) == n = targetCount

NotCalled == [called |-> FALSE, count |-> 0, cs |-> [c \in Channels |-> FALSE],
              g |-> [c \in Channels |-> "none"], readyCount |-> 0, out |-> 0]

\* ---- the mutexes of the service: timerMu guards pendingTimers, mu guards
\* lastReconcileEndTime; each names the task that holds it ----
NoTask == <<"", 0>>
ReconcileTask == <<"reconcile", 0>>
ShutdownTask == <<"shutdown", 0>>
TimerTask(id) == <<"timer", id>>
Unlocked == [timerMu |-> NoTask, mu |-> NoTask]

\* the service after New, and the cluster it is started on
Constructed ==
    /\ now = BootTime
    /\ tickPending = FALSE
    /\ ctxDone = FALSE
    /\ inShutdown = FALSE
    /\ ready = FALSE
    /\ doneCh = FALSE
    /\ lastReconcileEndTime = 0
    /\ podCfg \in [Keys -> [listed : BOOLEAN, hasSched : BOOLEAN, hasThr : BOOLEAN]]
    /\ cluster \in [Keys -> InitCluster]
    /\ \A k \in Keys :
          /\ ~podCfg[k].hasSched => cluster[k].restartAt = NoAnn
          /\ ~podCfg[k].listed => (podCfg[k] = Unlisted /\ cluster[k] = Untouched)
    /\ pods = <<>>
    /\ rc = [pc |-> "idle", i |-> 0, at |-> 0, thr |-> 0, t0 |-> 0, ret |-> ""]
    /\ timers = [id \in TimerIds |-> FreeTimer]
    /\ nextTimer = 0
    /\ pendingTimers = [k \in Keys |-> 0]
    /\ inFlightWg = 0
    /\ sd = "idle"
    /\ lastCall = NoCall
    /\ state = StateInit
    /\ appCall = NoAppCall
    /\ graceful = NoGraceful(0)
    /\ allClose = NotCalled
    /\ locks = Unlocked

\* the label selector matches one pod
Init ==
    /\ Constructed
    /\ podCfg["ns/a"].listed
    /\ ~podCfg["ns/b"].listed

\* ---- helpers of the reconcile goroutine ----
CurPod == pods[rc.i]

RcAt(pc) == [rc EXCEPT !.pc = pc]

\* entering the pacing select of ReconcileCommand
ToPace == [rc EXCEPT !.pc = "pace", !.at = 0, !.thr = 0, !.t0 = now]

\* (mutant) an error of processPod ends the pass
AbortPass == [rc EXCEPT !.pc = "endpass", !.i = 0, !.at = 0, !.thr = 0, !.ret = "error"]

\* reconcileOnePod: processPod returned an error; it is logged and the pod
\* is done (`return false`)
AfterProcessPodError == ToPace

\* (mutant) the threshold handler run without looking for its annotation
DispatchNoThresholdCheck(pod) == IF pod.hasSched THEN "sched" ELSE "thr"

\* reconcileOnePod: which handler runs first for a pod
Dispatch(pod) ==
    IF pod.hasSched THEN "sched" ELSE IF pod.hasThr THEN "thr" ELSE "pace"

\* reconcileOnePod: what follows the schedule handler
GoAfterSched ==
    IF CurPod.hasThr THEN [rc EXCEPT !.pc = "thr", !.at = 0] ELSE ToPace

\* what the last step decided without calling the repository
Note(k, what) == [NoCall EXCEPT !.key = k, !.by = what]

\* what the repository's answer r to an eviction request of `by` means for
\* the target: evicted, it is terminated and its workload controller recreates
\* it later (Recreate); `limited` keeps who asked when the last answer was
\* too-many-requests
Evicted(k, r, by) ==
    IF r = "ok" THEN [cluster EXCEPT ![k].evicted = TRUE, ![k].limited = ""]
    ELSE IF r = "toomany" THEN [cluster EXCEPT ![k].limited = by]
    ELSE [cluster EXCEPT ![k].limited = ""]

\* (mutant) a past restart-at is never taken as missed
ClassifyPastIsStale(pod, t) ==
    LET parsed == ParseRFC3339(pod.restartAt)
    IN IF pod.restartAt.kind = "none" THEN "absent"
       ELSE IF ~parsed[1] THEN "invalid"
       ELSE IF parsed[2] > t THEN "future"
       ELSE "stale"

\* (mutant) a past restart-at is taken as missed only within one interval
ClassifyMissedWithinInterval(pod, t) ==
    LET parsed == ParseRFC3339(pod.restartAt)
    IN IF pod.restartAt.kind = "none" THEN "absent"
       ELSE IF ~parsed[1] THEN "invalid"
       ELSE IF parsed[2] > t THEN "future"
       ELSE IF pod.createdAt < parsed[2] /\ t - parsed[2] < Interval THEN "missed"
       ELSE "stale"

\* (mutant) a past restart-at is always taken as missed
ClassifyPastIsMissed(pod, t) ==
    LET parsed == ParseRFC3339(pod.restartAt)
    IN IF pod.restartAt.kind = "none" THEN "absent"
       ELSE IF ~parsed[1] THEN "invalid"
       ELSE IF parsed[2] > t THEN "future"
       ELSE "missed"

\* (mutant) the verdict on an existing restart-at is ignored
ClassifyIgnoreExisting(pod, t) == "absent"

\* handleExistingRestartAt's classification of the restart-at annotation
Classify(pod, t) ==
    LET parsed == ParseRFC3339(pod.restartAt)
    IN IF pod.restartAt.kind = "none" THEN "absent"
       ELSE IF ~parsed[1] THEN "invalid"
       ELSE IF parsed[2] > t THEN "future"
       ELSE IF pod.createdAt < parsed[2] THEN "missed"
       ELSE "stale"

\* ---- Start ----
Start ==
    /\ rc.pc = "idle"
    /\ rc' = IF inShutdown THEN RcAt("notstarted") ELSE RcAt("boot")
    /\ lastCall' = NoCall
    /\ UNCHANGED <<now, tickPending, ctxDone, inShutdown, ready, doneCh,
                   lastReconcileEndTime, podCfg, cluster, pods, timers, nextTimer,
                   pendingTimers, inFlightWg, sd>>
    /\ UNCHANGED <<locks, infraVars>>

\* (mutant) ready is closed before the clock has been stamped
RunBootReadyUnstamped ==
    /\ rc.pc = "boot"
    /\ lastReconcileEndTime' = lastReconcileEndTime
    /\ ready' = TRUE
    /\ rc' = RcAt("list")
    /\ lastCall' = NoCall
    /\ UNCHANGED <<now, tickPending, ctxDone, inShutdown, doneCh, podCfg, cluster,
                   pods, timers, nextTimer, pendingTimers, inFlightWg, sd>>
    /\ UNCHANGED <<locks, infraVars>>

\* ---- RunCommand ----
RunBoot ==
    /\ rc.pc = "boot"
    /\ lastReconcileEndTime' = now
    /\ ready' = TRUE
    /\ rc' = RcAt("list")
    /\ lastCall' = NoCall
    /\ UNCHANGED <<now, tickPending, ctxDone, inShutdown, doneCh, podCfg, cluster,
                   pods, timers, nextTimer, pendingTimers, inFlightWg, sd>>
    /\ UNCHANGED <<locks, infraVars>>

\* ReconcileCommand: ListPodsQuery and its answer
ReconcileList ==
    /\ rc.pc = "list"
    /\ \E ok \in BOOLEAN :
         IF ~ok
         THEN /\ pods' = <<>>
              /\ rc' = [rc EXCEPT !.pc = "endpass", !.ret = "error"]
              /\ lastCall' = ListFailed
         ELSE IF ListPods(KeyOrder) = <<>>
         THEN /\ pods' = <<>>
              /\ rc' = [rc EXCEPT !.pc = "endpass", !.ret = "nil"]
              /\ lastCall' = ListCall
         ELSE /\ pods' = ListPods(KeyOrder)
              /\ rc' = [rc EXCEPT !.pc = "pod", !.i = 1]
              /\ lastCall' = ListCall
    /\ UNCHANGED <<now, tickPending, ctxDone, inShutdown, ready, doneCh,
                   lastReconcileEndTime, podCfg, cluster, timers, nextTimer,
                   pendingTimers, inFlightWg, sd>>
    /\ UNCHANGED <<locks, infraVars>>

\* (mutant) reconcileOnePod without the cancellation check
ReconcileOnePodUnchecked ==
    /\ rc.pc = "pod"
    /\ rc' = IF Dispatch(CurPod) = "pace" THEN ToPace ELSE RcAt(Dispatch(CurPod))
    /\ pods' = pods
    /\ lastCall' = NoCall
    /\ UNCHANGED <<now, tickPending, ctxDone, inShutdown, ready, doneCh,
                   lastReconcileEndTime, podCfg, cluster, timers, nextTimer,
                   pendingTimers, inFlightWg, sd>>
    /\ UNCHANGED <<locks, infraVars>>

\* reconcileOnePod: the cancellation check and the dispatch
ReconcileOnePod ==
    /\ rc.pc = "pod"
    /\ rc' = IF ctxDone THEN [rc EXCEPT !.pc = "endpass", !.i = 0, !.ret = "nil"]
             ELSE IF Dispatch(CurPod) = "pace" THEN ToPace
             ELSE RcAt(Dispatch(CurPod))
    /\ pods' = IF ctxDone THEN <<>> ELSE pods
    /\ lastCall' = NoCall
    /\ UNCHANGED <<now, tickPending, ctxDone, inShutdown, ready, doneCh,
                   lastReconcileEndTime, podCfg, cluster, timers, nextTimer,
                   pendingTimers, inFlightWg, sd>>
    /\ UNCHANGED <<locks, infraVars>>

\* processScheduledRestart with handleExistingRestartAt, up to the first call
ProcessScheduledRestart ==
    /\ rc.pc = "sched"
    /\ LET pod == CurPod
           class == Classify(pod, now)
       IN CASE class = "future" ->
                 /\ rc' = [rc EXCEPT !.pc = "armCheck", !.at = ParseRFC3339(pod.restartAt)[2]]
                 /\ lastCall' = NoCall
            [] class = "missed" ->
                 /\ rc' = RcAt("missedResp")
                 /\ lastCall' = EvictCall(pod.key, "missed", pod.createdAt, 0)
            [] OTHER ->
                 \E spec \in Schedules, tz \in Zones :
                    LET next == NextAfter(spec, tz, now)
                    IN IF next[1]
                       THEN /\ rc' = [rc EXCEPT !.pc = "patchResp", !.at = next[2]]
                            /\ lastCall' = PatchCall(pod.key, FormatRFC3339(next[2]))
                       ELSE /\ rc' = GoAfterSched
                            /\ lastCall' = Note(pod.key, "invalid schedule")
    /\ UNCHANGED <<now, tickPending, ctxDone, inShutdown, ready, doneCh,
                   lastReconcileEndTime, podCfg, cluster, pods, timers, nextTimer,
                   pendingTimers, inFlightWg, sd>>
    /\ UNCHANGED <<locks, infraVars>>

\* handleExistingRestartAt: the answer to the missed-schedule eviction
MissedEvictionDone ==
    /\ rc.pc = "missedResp"
    /\ \E r \in EvictResults :
         /\ cluster' = Evicted(CurPod.key, r, "missed")
         /\ lastCall' = EvictAnswer(CurPod.key, "missed", r)
    /\ rc' = GoAfterSched
    /\ UNCHANGED <<now, tickPending, ctxDone, inShutdown, ready, doneCh,
                   lastReconcileEndTime, podCfg, pods, timers, nextTimer,
                   pendingTimers, inFlightWg, sd>>
    /\ UNCHANGED <<locks, infraVars>>

\* processScheduledRestart: the answer to SetAnnotationCommand
\* (mutant) the timer is armed whatever SetAnnotationCommand answered
SetAnnotationDoneArmsAnyway ==
    /\ rc.pc = "patchResp"
    /\ \E ok \in BOOLEAN :
         IF ok
         THEN /\ cluster' = [cluster EXCEPT ![CurPod.key] =
                                SetAnnotationCommand(cluster[CurPod.key],
                                                     PreoomkillerAnnotationRestartAtKey,
                                                     FormatRFC3339(rc.at))]
              /\ rc' = RcAt("armCheck")
              /\ lastCall' = NoCall
         ELSE /\ cluster' = cluster
              /\ rc' = RcAt("armCheck")
              /\ lastCall' = Failure(CurPod.key, "set restart-at annotation")
    /\ UNCHANGED <<now, tickPending, ctxDone, inShutdown, ready, doneCh,
                   lastReconcileEndTime, podCfg, pods, timers, nextTimer,
                   pendingTimers, inFlightWg, sd>>
    /\ UNCHANGED <<locks, infraVars>>

SetAnnotationDone ==
    /\ rc.pc = "patchResp"
    /\ \E ok \in BOOLEAN :
         IF ok
         THEN /\ cluster' = [cluster EXCEPT ![CurPod.key] =
                                SetAnnotationCommand(cluster[CurPod.key],
                                                     PreoomkillerAnnotationRestartAtKey,
                                                     FormatRFC3339(rc.at))]
              /\ rc' = RcAt("armCheck")
              /\ lastCall' = NoCall
         ELSE /\ cluster' = cluster
              /\ rc' = GoAfterSched
              /\ lastCall' = Failure(CurPod.key, "set restart-at annotation")
    /\ UNCHANGED <<now, tickPending, ctxDone, inShutdown, ready, doneCh,
                   lastReconcileEndTime, podCfg, pods, timers, nextTimer,
                   pendingTimers, inFlightWg, sd>>
    /\ UNCHANGED <<locks, infraVars>>

\* scheduleEviction: the inShutdown check, before the lock is taken
ScheduleEvictionCheck ==
    /\ rc.pc = "armCheck"
    /\ rc' = IF inShutdown THEN GoAfterSched ELSE RcAt("armLock")
    /\ lastCall' = NoCall
    /\ UNCHANGED <<now, tickPending, ctxDone, inShutdown, ready, doneCh,
                   lastReconcileEndTime, podCfg, cluster, pods, timers, nextTimer,
                   pendingTimers, inFlightWg, sd>>
    /\ UNCHANGED <<locks, infraVars>>

\* (mutant) the map is not consulted
ExistsNever(k) == FALSE

\* scheduleEviction: `_, exists := s.pendingTimers[key]`
Exists(k) == pendingTimers[k] # 0

\* scheduleEviction: the part under timerMu
ScheduleEvictionLocked ==
    /\ rc.pc = "armLock"
    /\ IF Exists(CurPod.key)
       THEN /\ lastCall' = Note(CurPod.key, "already scheduled")
            /\ UNCHANGED <<timers, nextTimer, pendingTimers, inFlightWg>>
       ELSE /\ nextTimer < MaxTimers
            /\ lastCall' = [Note(CurPod.key, "scheduled") EXCEPT !.tid = nextTimer + 1]
            /\ \E jitter \in 0..JitterMax :
                 timers' = [timers EXCEPT ![nextTimer + 1] =
                                NewTimer(CurPod.key, rc.at, now, jitter)]
            /\ nextTimer' = nextTimer + 1
            /\ pendingTimers' = [pendingTimers EXCEPT ![CurPod.key] = nextTimer + 1]
            /\ inFlightWg' = inFlightWg + 1
    /\ rc' = GoAfterSched
    /\ UNCHANGED <<now, tickPending, ctxDone, inShutdown, ready, doneCh,
                   lastReconcileEndTime, podCfg, cluster, pods, sd>>
    /\ UNCHANGED <<locks, infraVars>>

\* processPod up to GetPodMetricsQuery
ProcessPod ==
    /\ rc.pc = "thr"
    /\ \E ann \in ThresholdAnns, limit \in MemoryLimits :
         LET th == resolveMemoryThreshold(ann, limit)
         IN IF th.st = "ok" /\ th.bytes # 0
            THEN /\ rc' = [rc EXCEPT !.pc = "metricsResp", !.thr = th.bytes]
                 /\ lastCall' = Resolved(MetricsCall(CurPod.key), th)
            ELSE IF th.st = "parseErr"
            THEN /\ rc' = AfterProcessPodError
                 /\ lastCall' = Resolved(Verdict(Failure(CurPod.key, "threshold"),
                                                 CurPod.key, 0, 0), th)
            ELSE /\ rc' = ToPace
                 /\ lastCall' = Resolved(Verdict(NoCall, CurPod.key, 0, 0), th)
    /\ UNCHANGED <<now, tickPending, ctxDone, inShutdown, ready, doneCh,
                   lastReconcileEndTime, podCfg, cluster, pods, timers, nextTimer,
                   pendingTimers, inFlightWg, sd>>
    /\ UNCHANGED <<locks, infraVars>>

\* processPod: the metrics answer, the comparison, the eviction request
ProcessPodMetrics ==
    /\ rc.pc = "metricsResp"
    /\ \E m \in MetricsResults :
         LET u == getPodMemoryUsageOrSkip(m)
         IN IF ~u[2] /\ ~u[3] /\ OverThreshold(u[1], rc.thr)
            THEN /\ rc' = [rc EXCEPT !.pc = "evictResp", !.thr = 0]
                 /\ lastCall' = Measured(Verdict(EvictCall(CurPod.key, "threshold",
                                                           CurPod.createdAt, 0),
                                                 CurPod.key, u[1], rc.thr), u)
            ELSE IF u[3]
            THEN /\ rc' = AfterProcessPodError
                 /\ lastCall' = Measured(Verdict(Failure(CurPod.key, "threshold"),
                                                 CurPod.key, u[1], rc.thr), u)
            ELSE /\ rc' = ToPace
                 /\ lastCall' = Measured(Verdict(NoCall, CurPod.key, u[1], rc.thr), u)
    /\ UNCHANGED <<now, tickPending, ctxDone, inShutdown, ready, doneCh,
                   lastReconcileEndTime, podCfg, cluster, pods, timers, nextTimer,
                   pendingTimers, inFlightWg, sd>>
    /\ UNCHANGED <<locks, infraVars>>

\* processPod: the answer to the threshold eviction
ProcessPodEvicted ==
    /\ rc.pc = "evictResp"
    /\ \E r \in EvictResults :
         /\ cluster' = Evicted(CurPod.key, r, "threshold")
         /\ lastCall' = EvictAnswer(CurPod.key, "threshold", r)
         /\ rc' = IF evictPodCommand(r)[2] THEN AfterProcessPodError ELSE ToPace
    /\ UNCHANGED <<now, tickPending, ctxDone, inShutdown, ready, doneCh,
                   lastReconcileEndTime, podCfg, pods, timers, nextTimer,
                   pendingTimers, inFlightWg, sd>>
    /\ UNCHANGED <<locks, infraVars>>

\* ReconcileCommand: the select between ctx.Done() and time.After(1s)
ReconcilePace ==
    /\ rc.pc = "pace"
    /\ \/ /\ ctxDone
          /\ rc' = [rc EXCEPT !.pc = "endpass", !.i = 0, !.t0 = 0, !.ret = "nil"]
          /\ pods' = <<>>
       \/ /\ now >= rc.t0 + PacingDelay
          /\ IF rc.i < Len(pods)
             THEN /\ rc' = [rc EXCEPT !.pc = "pod", !.i = rc.i + 1, !.t0 = 0]
                  /\ pods' = pods
             ELSE /\ rc' = [rc EXCEPT !.pc = "endpass", !.i = 0, !.t0 = 0, !.ret = "nil"]
                  /\ pods' = <<>>
    /\ lastCall' = NoCall
    /\ UNCHANGED <<now, tickPending, ctxDone, inShutdown, ready, doneCh,
                   lastReconcileEndTime, podCfg, cluster, timers, nextTimer,
                   pendingTimers, inFlightWg, sd>>
    /\ UNCHANGED <<locks, infraVars>>

\* (mutant) the end of a pass is not recorded
RunEndPassUnstamped ==
    /\ rc.pc = "endpass"
    /\ lastReconcileEndTime' = lastReconcileEndTime
    /\ rc' = [rc EXCEPT !.pc = "wait", !.ret = ""]
    /\ lastCall' = NoCall
    /\ UNCHANGED <<now, tickPending, ctxDone, inShutdown, ready, doneCh, podCfg,
                   cluster, pods, timers, nextTimer, pendingTimers, inFlightWg, sd>>
    /\ UNCHANGED <<locks, infraVars>>

\* RunCommand: setLastReconcileEndTime after the pass
RunEndPass ==
    /\ rc.pc = "endpass"
    /\ lastReconcileEndTime' = now
    /\ rc' = [rc EXCEPT !.pc = "wait", !.ret = ""]
    /\ lastCall' = NoCall
    /\ UNCHANGED <<now, tickPending, ctxDone, inShutdown, ready, doneCh, podCfg,
                   cluster, pods, timers, nextTimer, pendingTimers, inFlightWg, sd>>
    /\ UNCHANGED <<locks, infraVars>>

\* (mutant) the tick is served wherever the loop is waiting, the pacing
\* select included, and starts a pass at once
RunWaitTickInPace ==
    /\ rc.pc \in {"wait", "pace"}
    /\ \/ /\ tickPending
          /\ tickPending' = FALSE
          /\ rc' = RcAt("list")
          /\ doneCh' = doneCh
       \/ /\ ctxDone
          /\ rc.pc = "wait"
          /\ rc' = RcAt("exited")
          /\ doneCh' = TRUE
          /\ tickPending' = tickPending
    /\ lastCall' = NoCall
    /\ UNCHANGED <<now, ctxDone, inShutdown, ready, lastReconcileEndTime, podCfg,
                   cluster, pods, timers, nextTimer, pendingTimers, inFlightWg, sd>>
    /\ UNCHANGED <<locks, infraVars>>

\* RunCommand: the select between ticker.C and ctx.Done()
RunWait ==
    /\ rc.pc = "wait"
    /\ \/ /\ tickPending
          /\ tickPending' = FALSE
          /\ rc' = RcAt("list")
          /\ doneCh' = doneCh
       \/ /\ ctxDone
          /\ rc' = RcAt("exited")
          /\ doneCh' = TRUE
          /\ tickPending' = tickPending
    /\ lastCall' = NoCall
    /\ UNCHANGED <<now, ctxDone, inShutdown, ready, lastReconcileEndTime, podCfg,
                   cluster, pods, timers, nextTimer, pendingTimers, inFlightWg, sd>>
    /\ UNCHANGED <<locks, infraVars>>


\* ---- timer callbacks ----
\* (mutant) the timer is periodic: it fires again after its callback
TimerRefired(t) == [t EXCEPT !.st = "fired"]

\* a one-shot timer whose callback has returned
TimerDone(t) == [t EXCEPT !.st = "done", !.at = 0]

\* the runtime fires a timer at or after its due time and starts its callback
TimerFire(id) ==
    /\ timers[id].st = "pending"
    /\ now >= timers[id].due
    /\ timers' = [timers EXCEPT ![id].st = "fired", ![id].due = 0]
    /\ lastCall' = NoCall
    /\ UNCHANGED <<now, tickPending, ctxDone, inShutdown, ready, doneCh,
                   lastReconcileEndTime, podCfg, cluster, pods, rc, nextTimer,
                   pendingTimers, inFlightWg, sd>>
    /\ UNCHANGED <<locks, infraVars>>

\* (mutant) the callback asks for the eviction without reading inShutdown
RunScheduledEvictionUnchecked(id) ==
    /\ timers[id].st = "fired"
    /\ timers' = [timers EXCEPT ![id].st = "evicting",
                                ![id].evicts = timers[id].evicts + 1]
    /\ lastCall' = EvictCall(timers[id].key, "timer",
                             cluster[timers[id].key].createdAt, id)
    /\ UNCHANGED <<pendingTimers, inFlightWg>>
    /\ UNCHANGED <<now, tickPending, ctxDone, inShutdown, ready, doneCh,
                   lastReconcileEndTime, podCfg, cluster, pods, rc, nextTimer, sd>>
    /\ UNCHANGED <<locks, infraVars>>

\* runScheduledEviction: the inShutdown check, then the eviction request
RunScheduledEviction(id) ==
    /\ timers[id].st = "fired"
    /\ IF inShutdown
       THEN /\ pendingTimers' = [pendingTimers EXCEPT ![timers[id].key] = 0]
            /\ inFlightWg' = inFlightWg - 1
            /\ timers' = [timers EXCEPT ![id] = TimerDone(timers[id])]
            /\ lastCall' = NoCall
       ELSE /\ timers' = [timers EXCEPT ![id].st = "evicting",
                                        ![id].evicts = timers[id].evicts + 1]
            /\ lastCall' = EvictCall(timers[id].key, "timer",
                                     cluster[timers[id].key].createdAt, id)
            /\ UNCHANGED <<pendingTimers, inFlightWg>>
    /\ UNCHANGED <<now, tickPending, ctxDone, inShutdown, ready, doneCh,
                   lastReconcileEndTime, podCfg, cluster, pods, rc, nextTimer, sd>>
    /\ UNCHANGED <<locks, infraVars>>

\* (mutant) the callback returns without the deferred Done()
RunScheduledEvictionDoneNoRelease(id) ==
    /\ timers[id].st = "evicting"
    /\ \E r \in EvictResults :
         /\ cluster' = Evicted(timers[id].key, r, "timer")
         /\ lastCall' = EvictAnswer(timers[id].key, "timer", r)
    /\ pendingTimers' = [pendingTimers EXCEPT ![timers[id].key] = 0]
    /\ inFlightWg' = inFlightWg
    /\ timers' = [timers EXCEPT ![id] = TimerDone(timers[id])]
    /\ UNCHANGED <<now, tickPending, ctxDone, inShutdown, ready, doneCh,
                   lastReconcileEndTime, podCfg, pods, rc, nextTimer, sd>>
    /\ UNCHANGED <<locks, infraVars>>

\* runScheduledEviction: the eviction answer, the map delete, the deferred Done
RunScheduledEvictionDone(id) ==
    /\ timers[id].st = "evicting"
    /\ \E r \in EvictResults :
         /\ cluster' = Evicted(timers[id].key, r, "timer")
         /\ lastCall' = EvictAnswer(timers[id].key, "timer", r)
    /\ pendingTimers' = [pendingTimers EXCEPT ![timers[id].key] = 0]
    /\ inFlightWg' = inFlightWg - 1
    /\ timers' = [timers EXCEPT ![id] = TimerDone(timers[id])]
    /\ UNCHANGED <<now, tickPending, ctxDone, inShutdown, ready, doneCh,
                   lastReconcileEndTime, podCfg, pods, rc, nextTimer, sd>>
    /\ UNCHANGED <<locks, infraVars>>

\* ---- Shutdown ----
\* (mutant) the flag is stored, not compared: every caller goes through
StoreTrue(flag) == <<TRUE, TRUE>>

\* s.inShutdown.CompareAndSwap(false, true): <<swapped, the flag afterwards>>
CompareAndSwap(flag) == <<~flag, TRUE>>

\* a call that got through the CompareAndSwap
ShutdownEntered == [NoCall EXCEPT !.op = "shutdown", !.by = "shutting down"]

\* a call that returned at the CompareAndSwap
ShutdownSkipped == [NoCall EXCEPT !.op = "shutdown", !.by = "already shutting down"]

\* Shutdown up to stopPendingTimers: the CompareAndSwap lets one caller
\* through, any other call logs and returns nil
ShutdownCall ==
    /\ inShutdown' = CompareAndSwap(inShutdown)[2]
    /\ IF CompareAndSwap(inShutdown)[1]
       THEN /\ sd' = "stop"
            /\ lastCall' = ShutdownEntered
       ELSE /\ sd' = sd
            /\ lastCall' = ShutdownSkipped
    /\ UNCHANGED <<now, tickPending, ctxDone, ready, doneCh, lastReconcileEndTime,
                   podCfg, cluster, pods, rc, timers, nextTimer, pendingTimers,
                   inFlightWg>>
    /\ UNCHANGED <<locks, infraVars>>

\* (mutant) the entries are dropped and no timer is stopped
stopNoTimers == timers

\* stopPendingTimers, under timerMu
StoppedEntries == {id \in TimerIds : \E k \in Keys : pendingTimers[k] = id}

stopPendingTimers ==
    [id \in TimerIds |->
        IF id \in StoppedEntries
        THEN [StopTimer(timers[id]) EXCEPT
                 !.cx = (timers[id].st = "pending"),
                 !.due = IF timers[id].st = "pending" THEN 0 ELSE timers[id].due]
        ELSE timers[id]]

\* (mutant) Done() is called for every entry, whatever Stop() returned
StopReleasesAlways(id) == TRUE

\* App.runUntilShutdown: the application waits for the run context to be
\* cancelled (`<-ctx.Done()`) and then shuts its components down
runUntilShutdown == ctxDone

\* Shutdown is called
ShutdownBegin ==
    /\ sd = "idle"
    /\ runUntilShutdown
    /\ ShutdownCall

\* Shutdown is called again, after an earlier call has returned
ShutdownAgain ==
    /\ sd \in {"done", "failed"}
    /\ ShutdownCall

\* stopPendingTimers: `if timer.Stop() { s.inFlightWg.Done() }`
StopReleases(id) == timers[id].st = "pending"

ShutdownStopTimers ==
    /\ sd = "stop"
    /\ timers' = stopPendingTimers
    /\ inFlightWg' = inFlightWg - Cardinality({id \in StoppedEntries : StopReleases(id)})
    /\ pendingTimers' = [k \in Keys |-> 0]
    /\ sd' = "waitLoop"
    /\ lastCall' = NoCall
    /\ UNCHANGED <<now, tickPending, ctxDone, inShutdown, ready, doneCh,
                   lastReconcileEndTime, podCfg, cluster, pods, rc, nextTimer>>
    /\ UNCHANGED <<locks, infraVars>>

\* the first select: doneCh, or the shutdown context expires
ShutdownWaitLoop ==
    /\ sd = "waitLoop"
    /\ \/ doneCh /\ sd' = "waitWg"
       \/ sd' = "failed"
    /\ lastCall' = NoCall
    /\ UNCHANGED <<now, tickPending, ctxDone, inShutdown, ready, doneCh,
                   lastReconcileEndTime, podCfg, cluster, pods, rc, timers,
                   nextTimer, pendingTimers, inFlightWg>>
    /\ UNCHANGED <<locks, infraVars>>

\* the second select: inFlightWg.Wait() returned, or the context expires
ShutdownWaitEvictions ==
    /\ sd = "waitWg"
    /\ \/ inFlightWg = 0 /\ sd' = "done"
       \/ sd' = "failed"
    /\ lastCall' = NoCall
    /\ UNCHANGED <<now, tickPending, ctxDone, inShutdown, ready, doneCh,
                   lastReconcileEndTime, podCfg, cluster, pods, rc, timers,
                   nextTimer, pendingTimers, inFlightWg>>
    /\ UNCHANGED <<locks, infraVars>>

\* ---- environment ----
\* the application cancels the run context
CancelRun ==
    /\ ~ctxDone
    /\ ctxDone' = TRUE
    /\ lastCall' = NoCall
    /\ UNCHANGED <<now, tickPending, inShutdown, ready, doneCh, lastReconcileEndTime,
                   podCfg, cluster, pods, rc, timers, nextTimer, pendingTimers,
                   inFlightWg, sd>>
    /\ UNCHANGED <<locks, infraVars>>

\* a second passes; the ticker created by RunCommand at BootTime ticks every
\* Interval into a channel that holds one tick
AdvanceTime ==
    /\ now < MaxTime
    /\ rc.pc \notin {"idle", "boot"}
    /\ now' = now + 1
    /\ tickPending' = IF rc.pc \in {"notstarted", "exited"} THEN tickPending
                      ELSE (tickPending \/ (now' - BootTime) % Interval = 0)
    /\ lastCall' = NoCall
    /\ UNCHANGED <<ctxDone, inShutdown, ready, doneCh, lastReconcileEndTime, podCfg,
                   cluster, pods, rc, timers, nextTimer, pendingTimers, inFlightWg, sd>>
    /\ UNCHANGED <<locks, infraVars>>

\* the same, over the longer range the health probe is exercised on
PingAdvanceTime ==
    /\ now < MaxPingTime
    /\ rc.pc \notin {"idle", "boot"}
    /\ now' = now + 1
    /\ tickPending' = IF rc.pc \in {"notstarted", "exited"} THEN tickPending
                      ELSE (tickPending \/ (now' - BootTime) % Interval = 0)
    /\ lastCall' = NoCall
    /\ UNCHANGED <<ctxDone, inShutdown, ready, doneCh, lastReconcileEndTime, podCfg,
                   cluster, pods, rc, timers, nextTimer, pendingTimers, inFlightWg, sd>>
    /\ UNCHANGED <<locks, infraVars>>

\* ---- Ping ----
\* getLastReconcileAge: time.Since(s.lastReconcileEndTime)
getLastReconcileAge == now - lastReconcileEndTime

\* (mutant) the age compared with >=
PingStaleOrEqual(age) == age >= 2 * Interval

\* Ping: `lastReconsileAge > 2*s.interval`
PingStale(age) == age > 2 * Interval

\* Ping: the results the select can produce; when both ctx.Done() and
\* s.ready can proceed the runtime picks either case
PingResults(cancelled) ==
    (IF cancelled THEN {"ctx error"} ELSE {})
      \cup (IF ready
            THEN {IF PingStale(getLastReconcileAge) THEN "stale" ELSE "ok"}
            ELSE {})
      \cup (IF ~cancelled /\ ~ready THEN {"not ready"} ELSE {})

\* a health probe calls Ping with a live or a cancelled context
Ping ==
    /\ \E cancelled \in BOOLEAN : \E res \in PingResults(cancelled) :
          lastCall' = [NoCall EXCEPT !.op = "ping", !.by = res,
                                     !.cancelled = cancelled,
                                     !.age = IF ready THEN getLastReconcileAge ELSE 0]
    /\ UNCHANGED <<now, tickPending, ctxDone, inShutdown, ready, doneCh,
                   lastReconcileEndTime, podCfg, cluster, pods, rc, timers, nextTimer,
                   pendingTimers, inFlightWg, sd>>
    /\ UNCHANGED <<locks, infraVars>>

\* the workload controller recreates an evicted target under the same name:
\* a new creation time, and no restart-at annotation
Recreate(k) ==
    /\ cluster[k].evicted
    /\ cluster' = [cluster EXCEPT ![k] = [createdAt |-> now, restartAt |-> NoAnn,
                                          byEngine |-> FALSE, evicted |-> FALSE,
                                          limited |-> ""]]
    /\ lastCall' = NoCall
    /\ UNCHANGED <<now, tickPending, ctxDone, inShutdown, ready, doneCh,
                   lastReconcileEndTime, podCfg, pods, rc, timers, nextTimer,
                   pendingTimers, inFlightWg, sd>>
    /\ UNCHANGED <<locks, infraVars>>

Next ==
    \/ Start
    \/ RunBoot
    \/ ReconcileList
    \/ ReconcileOnePod
    \/ ProcessScheduledRestart
    \/ MissedEvictionDone
    \/ SetAnnotationDone
    \/ ScheduleEvictionCheck
    \/ ScheduleEvictionLocked
    \/ ProcessPod
    \/ ProcessPodMetrics
    \/ ProcessPodEvicted
    \/ ReconcilePace
    \/ RunEndPass
    \/ RunWait
    \/ \E id \in TimerIds : TimerFire(id)
    \/ \E id \in TimerIds : RunScheduledEviction(id)
    \/ \E id \in TimerIds : RunScheduledEvictionDone(id)
    \/ ShutdownBegin
    \/ ShutdownStopTimers
    \/ ShutdownWaitLoop
    \/ ShutdownWaitEvictions
    \/ CancelRun
    \/ AdvanceTime
    \/ \E k \in Keys : Recreate(k)

Spec == Init /\ [][Next]_vars

\* ---- the service probed by Ping while it reconciles targets that carry
\* no annotation of the controller ----
PingInit ==
    /\ Init
    /\ \A k \in Keys : ~podCfg[k].hasSched /\ ~podCfg[k].hasThr

PingNext ==
    \/ Start
    \/ RunBoot
    \/ ReconcileList
    \/ ReconcileOnePod
    \/ ReconcilePace
    \/ RunEndPass
    \/ RunWait
    \/ ShutdownBegin
    \/ CancelRun
    \/ PingAdvanceTime
    \/ Ping

PingSpec == PingInit /\ [][PingNext]_vars

\* ---- Shutdown called more than once, on targets that carry the schedule
\* annotation only ----
ShutdownInit ==
    /\ Init
    /\ \A k \in Keys : podCfg[k].listed => (podCfg[k].hasSched /\ ~podCfg[k].hasThr)

ShutdownNext ==
    \/ Start
    \/ RunBoot
    \/ ReconcileList
    \/ ReconcileOnePod
    \/ ProcessScheduledRestart
    \/ MissedEvictionDone
    \/ SetAnnotationDone
    \/ ScheduleEvictionCheck
    \/ ScheduleEvictionLocked
    \/ ReconcilePace
    \/ RunEndPass
    \/ RunWait
    \/ \E id \in TimerIds : TimerFire(id)
    \/ \E id \in TimerIds : RunScheduledEviction(id)
    \/ \E id \in TimerIds : RunScheduledEvictionDone(id)
    \/ ShutdownBegin
    \/ ShutdownAgain
    \/ ShutdownStopTimers
    \/ ShutdownWaitLoop
    \/ ShutdownWaitEvictions
    \/ CancelRun
    \/ AdvanceTime
    \/ \E k \in Keys : Recreate(k)

ShutdownSpec == ShutdownInit /\ [][ShutdownNext]_vars

\* ---- the reconcile loop on a cluster whose two pods both match the label
\* selector; both were created before the service started and carry no
\* restart-at or one that is already due ----
TwoInit ==
    /\ Constructed
    /\ \A k \in Keys :
          /\ podCfg[k].listed
          /\ cluster[k].createdAt = 0
          /\ cluster[k].restartAt \in {NoAnn, FormatRFC3339(BootTime - 1)}

TwoNext ==
    \/ Start
    \/ RunBoot
    \/ ReconcileList
    \/ ReconcileOnePod
    \/ ProcessScheduledRestart
    \/ MissedEvictionDone
    \/ SetAnnotationDone
    \/ ScheduleEvictionCheck
    \/ ScheduleEvictionLocked
    \/ ProcessPod
    \/ ProcessPodMetrics
    \/ ProcessPodEvicted
    \/ ReconcilePace
    \/ RunEndPass
    \/ RunWait
    \/ CancelRun
    \/ AdvanceTime

TwoSpec == TwoInit /\ [][TwoNext]_vars

\* ---- the reconcile loop on a target that carries the memory-threshold
\* annotation only ----
ThresholdInit ==
    /\ Init
    /\ \A k \in Keys : podCfg[k].listed => (podCfg[k].hasThr /\ ~podCfg[k].hasSched)

ThresholdNext ==
    \/ Start
    \/ RunBoot
    \/ ReconcileList
    \/ ReconcileOnePod
    \/ ProcessPod
    \/ ProcessPodMetrics
    \/ ProcessPodEvicted
    \/ ReconcilePace
    \/ RunEndPass
    \/ RunWait
    \/ CancelRun
    \/ AdvanceTime
    \/ \E k \in Keys : Recreate(k)

ThresholdSpec == ThresholdInit /\ [][ThresholdNext]_vars

\* ---- the threshold resolver on its own ----
MaxLimit == 50

\* percentage annotations around the accepted range, and the limits they
\* are resolved against
PercentAnns == [kind : {"pct"}, n : (0 - 1)..(percentScale + 1)]
ResolveLimits == {NoLimit} \cup [set : {TRUE}, bytes : 0..MaxLimit]

ResolveInit ==
    /\ Constructed
    /\ podCfg = [k \in Keys |-> Unlisted]

\* processPod's call of resolveMemoryThreshold for a pod with annotation ann
\* and memory limit `limit`
ResolveThreshold ==
    /\ lastCall = NoCall
    /\ \E ann \in PercentAnns, limit \in ResolveLimits :
         LET th == resolveMemoryThreshold(ann, limit)
         IN lastCall' = [NoCall EXCEPT !.op = "resolve", !.by = "threshold",
                                       !.tann = ann, !.limit = limit,
                                       !.res = th.st, !.thr = th.bytes]
    /\ UNCHANGED <<now, tickPending, ctxDone, inShutdown, ready, doneCh,
                   lastReconcileEndTime, podCfg, cluster, pods, rc, timers,
                   nextTimer, pendingTimers, inFlightWg, sd>>
    /\ UNCHANGED <<locks, infraVars>>

ResolveNext == ResolveThreshold

ResolveSpec == ResolveInit /\ [][ResolveNext]_vars

\* ---- the application state and its shutdown ----
AppInit ==
    /\ Constructed
    /\ podCfg = [k \in Keys |-> Unlisted]

\* AppState.RegisterShutdowner
RegisterShutdowner ==
    /\ graceful.pc = "idle"
    /\ graceful.n < MaxShutdowners
    /\ graceful' = NoGraceful(graceful.n + 1)
    /\ UNCHANGED <<state, appCall, allClose, ctxDone>>
    /\ UNCHANGED serviceVars

AppSetStarting ==
    /\ state' = SetStarting(state)[1]
    /\ appCall' = Returned("SetStarting", state, SetStarting(state)[2])
    /\ UNCHANGED <<graceful, allClose, ctxDone>>
    /\ UNCHANGED serviceVars

AppSetRunning ==
    /\ state' = SetRunning(state)[1]
    /\ appCall' = Returned("SetRunning", state, SetRunning(state)[2])
    /\ UNCHANGED <<graceful, allClose, ctxDone>>
    /\ UNCHANGED serviceVars

AppSetTerminating ==
    /\ state' = SetTerminating(state)[1]
    /\ appCall' = Returned("SetTerminating", state, SetTerminating(state)[2])
    /\ UNCHANGED <<graceful, allClose, ctxDone>>
    /\ UNCHANGED serviceVars

\* AppState.Shutdown: SetTerminating, then into GracefulShutdown with the
\* registered shutdowners
AppShutdownBegin ==
    /\ graceful.pc = "idle"
    /\ state' = SetTerminating(state)[1]
    /\ IF SetTerminating(state)[2] # NoErr
       THEN /\ appCall' = Returned("Shutdown", state, SetTerminating(state)[2])
            /\ graceful' = graceful
       ELSE /\ appCall' = Returned("SetTerminating", state, NoErr)
            /\ graceful' = [NoGraceful(graceful.n) EXCEPT !.pc = "loop", !.i = graceful.n,
                                                          !.from = state]
    /\ UNCHANGED <<allClose, ctxDone>>
    /\ UNCHANGED serviceVars

\* GracefulShutdown: shutdowner.Shutdown(ctx) on component i and its answer
GracefulShutdownStep ==
    /\ graceful.pc = "loop"
    /\ graceful.i >= 1
    /\ \E failed \in BOOLEAN :
         graceful' = [graceful EXCEPT
                        !.called = Append(@, [c |-> graceful.i,
                                              cx |-> WithoutCancel(ctxDone),
                                              failed |-> failed]),
                        !.errs = IF failed THEN Append(@, graceful.i) ELSE @,
                        !.i = NextComponent(graceful.i, failed)]
    /\ UNCHANGED <<state, appCall, allClose, ctxDone>>
    /\ UNCHANGED serviceVars

\* GracefulShutdown: the loop is over, the errors are joined and returned
GracefulShutdownReturn ==
    /\ graceful.pc = "loop"
    /\ graceful.i < 1
    /\ graceful' = [graceful EXCEPT !.pc = "returned"]
    /\ UNCHANGED <<state, appCall, allClose, ctxDone>>
    /\ UNCHANGED serviceVars

\* (mutant) the state is set to Terminated whatever GracefulShutdown returned
AppShutdownEndAlwaysTerminated ==
    /\ graceful.pc = "returned"
    /\ state' = StateTerminated
    /\ appCall' = Returned("Shutdown", graceful.from, JoinErrors(graceful.errs))
    /\ graceful' = [graceful EXCEPT !.pc = "idle"]
    /\ UNCHANGED <<allClose, ctxDone>>
    /\ UNCHANGED serviceVars

\* AppState.Shutdown after GracefulShutdown
AppShutdownEnd ==
    /\ graceful.pc = "returned"
    /\ IF JoinErrors(graceful.errs) # NoErr
       THEN /\ state' = state
            /\ appCall' = Returned("Shutdown", graceful.from, JoinErrors(graceful.errs))
       ELSE /\ state' = StateTerminated
            /\ appCall' = Returned("Shutdown", graceful.from, NoErr)
    /\ graceful' = [graceful EXCEPT !.pc = "idle"]
    /\ UNCHANGED <<allClose, ctxDone>>
    /\ UNCHANGED serviceVars

\* the caller's context is cancelled
CancelContext ==
    /\ ~ctxDone
    /\ ctxDone' = TRUE
    /\ UNCHANGED <<locks, infraVars>>
    /\ UNCHANGED serviceVars

AppNext ==
    \/ RegisterShutdowner
    \/ AppSetStarting
    \/ AppSetRunning
    \/ AppSetTerminating
    \/ AppShutdownBegin
    \/ GracefulShutdownStep
    \/ GracefulShutdownReturn
    \/ AppShutdownEnd
    \/ CancelContext

AppSpec == AppInit /\ [][AppNext]_vars

\* ---- allChannelsClose on input channels that are closed one by one ----
\* the call: with no channel out is closed at once, else one goroutine per
\* channel is started
AllChannelsClose ==
    /\ ~allClose.called
    /\ \E count \in 0..MaxChannels :
         allClose' = [allClose EXCEPT
                        !.called = TRUE,
                        !.count = count,
                        !.out = IF count = 0 THEN 1 ELSE 0,
                        !.g = [c \in Channels |-> IF c <= count THEN "wait" ELSE "none"]]
    /\ UNCHANGED <<state, appCall, graceful, ctxDone>>
    /\ UNCHANGED serviceVars

\* the owner of input channel c closes it
CloseChannel(c) ==
    /\ ~allClose.cs[c]
    /\ allClose' = [allClose EXCEPT !.cs[c] = TRUE]
    /\ UNCHANGED <<state, appCall, graceful, ctxDone>>
    /\ UNCHANGED serviceVars

\* goroutine c: <-ch returns
GoroutineReceive(c) ==
    /\ allClose.g[c] = "wait"
    /\ allClose.cs[c]
    /\ allClose' = [allClose EXCEPT !.g[c] = "add"]
    /\ UNCHANGED <<state, appCall, graceful, ctxDone>>
    /\ UNCHANGED serviceVars

\* goroutine c: readyCount.Add(1) and the comparison of what it returned
GoroutineAdd(c) ==
    /\ allClose.g[c] = "add"
    /\ allClose' = [allClose EXCEPT
                      !.readyCount = @ + 1,
                      !.g[c] = IF ClosesOut(allClose.readyCount + 1, allClose.count)
                               THEN "close" ELSE "done"]
    /\ UNCHANGED <<state, appCall, graceful, ctxDone>>
    /\ UNCHANGED serviceVars

\* goroutine c: close(out)
GoroutineClose(c) ==
    /\ allClose.g[c] = "close"
    /\ allClose' = [allClose EXCEPT !.out = @ + 1, !.g[c] = "done"]
    /\ UNCHANGED <<state, appCall, graceful, ctxDone>>
    /\ UNCHANGED serviceVars

ChannelsNext ==
    \/ AllChannelsClose
    \/ \E c \in Channels : CloseChannel(c)
    \/ \E c \in Channels : GoroutineReceive(c)
    \/ \E c \in Channels : GoroutineAdd(c)
    \/ \E c \in Channels : GoroutineClose(c)
    \/ CancelContext

ChannelsSpec == AppInit /\ [][ChannelsNext]_vars

\* ---- the service with its mutexes: every function that takes timerMu or mu
\* is split at Lock() and Unlock(), on targets that carry the schedule
\* annotation only ----
\* setLastReconcileEndTime: s.mu.Lock()
SetLastReconcileEndTimeLock ==
    /\ rc.pc \in {"boot", "endpass"}
    /\ locks.mu = NoTask
    /\ locks' = [locks EXCEPT !.mu = ReconcileTask]
    /\ rc' = RcAt(IF rc.pc = "boot" THEN "bootStamp" ELSE "endStamp")
    /\ lastCall' = NoCall
    /\ UNCHANGED <<now, tickPending, ctxDone, inShutdown, ready, doneCh,
                   lastReconcileEndTime, podCfg, cluster, pods, timers, nextTimer,
                   pendingTimers, inFlightWg, sd>>
    /\ UNCHANGED infraVars

\* setLastReconcileEndTime: the stamp and the deferred s.mu.Unlock(); at boot
\* RunCommand then closes ready, after a pass it goes to its select
SetLastReconcileEndTimeUnlock ==
    /\ rc.pc \in {"bootStamp", "endStamp"}
    /\ locks.mu = ReconcileTask
    /\ lastReconcileEndTime' = now
    /\ locks' = [locks EXCEPT !.mu = NoTask]
    /\ ready' = (ready \/ rc.pc = "bootStamp")
    /\ rc' = IF rc.pc = "bootStamp" THEN RcAt("list")
             ELSE [rc EXCEPT !.pc = "wait", !.ret = ""]
    /\ lastCall' = NoCall
    /\ UNCHANGED <<now, tickPending, ctxDone, inShutdown, doneCh, podCfg, cluster,
                   pods, timers, nextTimer, pendingTimers, inFlightWg, sd>>
    /\ UNCHANGED infraVars

\* scheduleEviction: s.timerMu.Lock()
ScheduleEvictionLock ==
    /\ rc.pc = "armLock"
    /\ locks.timerMu = NoTask
    /\ locks' = [locks EXCEPT !.timerMu = ReconcileTask]
    /\ rc' = RcAt("armLocked")
    /\ lastCall' = NoCall
    /\ UNCHANGED <<now, tickPending, ctxDone, inShutdown, ready, doneCh,
                   lastReconcileEndTime, podCfg, cluster, pods, timers, nextTimer,
                   pendingTimers, inFlightWg, sd>>
    /\ UNCHANGED infraVars

\* scheduleEviction: the part under timerMu and the deferred Unlock()
ScheduleEvictionUnlock ==
    /\ rc.pc = "armLocked"
    /\ locks.timerMu = ReconcileTask
    /\ IF Exists(CurPod.key)
       THEN /\ lastCall' = Note(CurPod.key, "already scheduled")
            /\ UNCHANGED <<timers, nextTimer, pendingTimers, inFlightWg>>
       ELSE /\ nextTimer < MaxTimers
            /\ lastCall' = [Note(CurPod.key, "scheduled") EXCEPT !.tid = nextTimer + 1]
            /\ \E jitter \in 0..JitterMax :
                 timers' = [timers EXCEPT ![nextTimer + 1] =
                                NewTimer(CurPod.key, rc.at, now, jitter)]
            /\ nextTimer' = nextTimer + 1
            /\ pendingTimers' = [pendingTimers EXCEPT ![CurPod.key] = nextTimer + 1]
            /\ inFlightWg' = inFlightWg + 1
    /\ locks' = [locks EXCEPT !.timerMu = NoTask]
    /\ rc' = GoAfterSched
    /\ UNCHANGED <<now, tickPending, ctxDone, inShutdown, ready, doneCh,
                   lastReconcileEndTime, podCfg, cluster, pods, sd>>
    /\ UNCHANGED infraVars

\* (mutant) the callback takes timerMu before it asks for the eviction
RunScheduledEvictionCheckUnderLock(id) ==
    /\ timers[id].st = "fired"
    /\ locks.timerMu = NoTask
    /\ IF inShutdown
       THEN /\ timers' = [timers EXCEPT ![id].st = "deleting"]
            /\ lastCall' = NoCall
            /\ locks' = locks
       ELSE /\ timers' = [timers EXCEPT ![id].st = "evicting",
                                        ![id].evicts = timers[id].evicts + 1]
            /\ lastCall' = EvictCall(timers[id].key, "timer",
                                     cluster[timers[id].key].createdAt, id)
            /\ locks' = [locks EXCEPT !.timerMu = TimerTask(id)]
    /\ UNCHANGED <<now, tickPending, ctxDone, inShutdown, ready, doneCh,
                   lastReconcileEndTime, podCfg, cluster, pods, rc, nextTimer,
                   pendingTimers, inFlightWg, sd>>
    /\ UNCHANGED infraVars

\* runScheduledEviction: the inShutdown check, then the eviction request
RunScheduledEvictionCheck(id) ==
    /\ timers[id].st = "fired"
    /\ IF inShutdown
       THEN /\ timers' = [timers EXCEPT ![id].st = "deleting"]
            /\ lastCall' = NoCall
       ELSE /\ timers' = [timers EXCEPT ![id].st = "evicting",
                                        ![id].evicts = timers[id].evicts + 1]
            /\ lastCall' = EvictCall(timers[id].key, "timer",
                                     cluster[timers[id].key].createdAt, id)
    /\ UNCHANGED <<now, tickPending, ctxDone, inShutdown, ready, doneCh,
                   lastReconcileEndTime, podCfg, cluster, pods, rc, nextTimer,
                   pendingTimers, inFlightWg, sd, locks>>
    /\ UNCHANGED infraVars

\* runScheduledEviction: the answer to the eviction request
RunScheduledEvictionAnswer(id) ==
    /\ timers[id].st = "evicting"
    /\ \E r \in EvictResults :
         /\ cluster' = Evicted(timers[id].key, r, "timer")
         /\ lastCall' = EvictAnswer(timers[id].key, "timer", r)
    /\ timers' = [timers EXCEPT ![id].st = "deleting"]
    /\ UNCHANGED <<now, tickPending, ctxDone, inShutdown, ready, doneCh,
                   lastReconcileEndTime, podCfg, pods, rc, nextTimer,
                   pendingTimers, inFlightWg, sd, locks>>
    /\ UNCHANGED infraVars

\* runScheduledEviction: s.timerMu.Lock() before the delete
RunScheduledEvictionLock(id) ==
    /\ timers[id].st = "deleting"
    /\ locks.timerMu = NoTask
    /\ locks' = [locks EXCEPT !.timerMu = TimerTask(id)]
    /\ timers' = [timers EXCEPT ![id].st = "locked"]
    /\ lastCall' = NoCall
    /\ UNCHANGED <<now, tickPending, ctxDone, inShutdown, ready, doneCh,
                   lastReconcileEndTime, podCfg, cluster, pods, rc, nextTimer,
                   pendingTimers, inFlightWg, sd>>
    /\ UNCHANGED infraVars

\* runScheduledEviction: the delete, s.timerMu.Unlock() and the deferred Done()
RunScheduledEvictionUnlock(id) ==
    /\ timers[id].st = "locked"
    /\ locks.timerMu = TimerTask(id)
    /\ pendingTimers' = [pendingTimers EXCEPT ![timers[id].key] = 0]
    /\ locks' = [locks EXCEPT !.timerMu = NoTask]
    /\ inFlightWg' = inFlightWg - 1
    /\ timers' = [timers EXCEPT ![id] = TimerDone(timers[id])]
    /\ lastCall' = NoCall
    /\ UNCHANGED <<now, tickPending, ctxDone, inShutdown, ready, doneCh,
                   lastReconcileEndTime, podCfg, cluster, pods, rc, nextTimer, sd>>
    /\ UNCHANGED infraVars

\* stopPendingTimers: s.timerMu.Lock()
StopPendingTimersLock ==
    /\ sd = "stop"
    /\ locks.timerMu = NoTask
    /\ locks' = [locks EXCEPT !.timerMu = ShutdownTask]
    /\ sd' = "stopLocked"
    /\ lastCall' = NoCall
    /\ UNCHANGED <<now, tickPending, ctxDone, inShutdown, ready, doneCh,
                   lastReconcileEndTime, podCfg, cluster, pods, rc, timers,
                   nextTimer, pendingTimers, inFlightWg>>
    /\ UNCHANGED infraVars

\* stopPendingTimers: the loop over the map and the deferred Unlock()
StopPendingTimersUnlock ==
    /\ sd = "stopLocked"
    /\ locks.timerMu = ShutdownTask
    /\ timers' = stopPendingTimers
    /\ inFlightWg' = inFlightWg - Cardinality({id \in StoppedEntries : StopReleases(id)})
    /\ pendingTimers' = [k \in Keys |-> 0]
    /\ locks' = [locks EXCEPT !.timerMu = NoTask]
    /\ sd' = "waitLoop"
    /\ lastCall' = NoCall
    /\ UNCHANGED <<now, tickPending, ctxDone, inShutdown, ready, doneCh,
                   lastReconcileEndTime, podCfg, cluster, pods, rc, nextTimer>>
    /\ UNCHANGED infraVars

LockInit ==
    /\ Init
    /\ \A k \in Keys : podCfg[k].listed => (podCfg[k].hasSched /\ ~podCfg[k].hasThr)

LockNext ==
    \/ Start
    \/ SetLastReconcileEndTimeLock
    \/ SetLastReconcileEndTimeUnlock
    \/ ReconcileList
    \/ ReconcileOnePod
    \/ ProcessScheduledRestart
    \/ MissedEvictionDone
    \/ SetAnnotationDone
    \/ ScheduleEvictionCheck
    \/ ScheduleEvictionLock
    \/ ScheduleEvictionUnlock
    \/ ReconcilePace
    \/ RunWait
    \/ \E id \in TimerIds : TimerFire(id)
    \/ \E id \in TimerIds : RunScheduledEvictionCheck(id)
    \/ \E id \in TimerIds : RunScheduledEvictionAnswer(id)
    \/ \E id \in TimerIds : RunScheduledEvictionLock(id)
    \/ \E id \in TimerIds : RunScheduledEvictionUnlock(id)
    \/ ShutdownBegin
    \/ StopPendingTimersLock
    \/ StopPendingTimersUnlock
    \/ ShutdownWaitLoop
    \/ ShutdownWaitEvictions
    \/ CancelRun
    \/ AdvanceTime

LockSpec == LockInit /\ [][LockNext]_vars

TypeOK ==
    /\ now \in BootTime..Max(MaxTime, MaxPingTime)
    /\ inFlightWg \in Int
    /\ nextTimer \in 0..MaxTimers


\* ======================= claims =======================

\* C1: with a minimum pod age configured, no eviction request is sent for a
\* target younger than that minimum, whichever path asks for the eviction.
C1_NoEvictionOfYoungTarget ==
    (MinPodAge > 0 /\ lastCall.op = "evict") => now - lastCall.created >= MinPodAge

\* C2: the threshold handler requests an eviction if and only if it resolved
\* a non-zero threshold, a non-zero usage was reported and the usage is
\* strictly greater than the threshold.
C2_ThresholdEvictsIffStrictlyOver ==
    (lastCall.by = "threshold" /\ lastCall.op \in {"none", "evict"}) =>
        (lastCall.op = "evict" <=>
            (lastCall.thr # 0 /\ lastCall.usage # 0 /\ lastCall.usage > lastCall.thr))

C2_Witness ==
    /\ lastCall.by = "threshold"
    /\ lastCall.op = "evict"
    /\ lastCall.usage = lastCall.thr + 1

\* a usage equal to the threshold was compared and left alone
C2_WitnessEqual ==
    /\ lastCall.by = "threshold"
    /\ lastCall.op = "none"
    /\ lastCall.thr # 0
    /\ lastCall.usage = lastCall.thr

PendingFor(k) == {id \in TimerIds : timers[id].key = k /\ timers[id].st = "pending"}

C4_OneTimerPerKey ==
    /\ \A k \in Keys : Cardinality(PendingFor(k)) <= 1
    /\ lastCall.by = "scheduled" =>
          /\ pendingTimers[lastCall.key] = lastCall.tid
          /\ PendingFor(lastCall.key) = {lastCall.tid}
    /\ lastCall.by = "already scheduled" =>
          /\ pendingTimers[lastCall.key] \in 1..nextTimer
          /\ Cardinality(PendingFor(lastCall.key)) <= 1

\* a later pass found the key present and armed nothing
C4_Witness ==
    /\ lastCall.by = "already scheduled"
    /\ timers[pendingTimers[lastCall.key]].st = "pending"
    /\ nextTimer = 1

\* C5: a timer that was armed issues at most one eviction attempt.
C5_OneEvictionPerTimer ==
    /\ \A id \in TimerIds : timers[id].evicts <= 1
    /\ (lastCall.op = "evict" /\ lastCall.by = "timer") =>
          /\ timers[lastCall.tid].evicts = 1
          /\ timers[lastCall.tid].key = lastCall.key

C5_Witness ==
    \E id \in TimerIds : timers[id].st = "done" /\ timers[id].evicts = 1


\* ---- the restart-at annotation of a listed pod, read off the data ----
IsMissed(pod, t) ==
    pod.restartAt.kind = "ts" /\ pod.restartAt.sec <= t /\ pod.createdAt < pod.restartAt.sec

IsStale(pod, t) ==
    pod.restartAt.kind = "ts" /\ pod.restartAt.sec <= t /\ pod.createdAt >= pod.restartAt.sec

IsInvalid(pod) == pod.restartAt.kind = "bad"

\* v is the RFC3339 form of the first cron instant strictly after t
IsNextRun(v, t) ==
    /\ v.kind = "ts"
    /\ v.sec > t
    /\ v.sec % CronPeriod = 0
    /\ v.sec - t <= CronPeriod

\* C6: for a missed schedule the pass asks for the eviction at once and, for
\* that target, patches no restart-at and arms no timer in that pass.
C6_MissedEvictsNow ==
    [][ /\ (rc.pc = "sched" /\ IsMissed(CurPod, now) /\ rc'.pc # "sched") =>
              /\ rc'.pc = "missedResp"
              /\ lastCall' = EvictCall(CurPod.key, "missed", CurPod.createdAt, 0)
              /\ UNCHANGED <<cluster, timers, pendingTimers>>
        /\ (rc.pc = "missedResp" /\ rc'.pc # "missedResp") =>
              /\ rc'.pc \in {"thr", "pace"}
              /\ lastCall'.op # "patch"
              /\ cluster'[CurPod.key].restartAt = cluster[CurPod.key].restartAt
              /\ UNCHANGED <<timers, pendingTimers, nextTimer>>
      ]_vars

C6_Witness ==
    /\ lastCall.op = "evict"
    /\ lastCall.by = "missed"
    /\ rc.pc = "missedResp"
    /\ IsMissed(CurPod, now)

\* C7: a target without restart-at and with a valid schedule gets restart-at
\* patched to the next cron instant after now; a pass that lists the
\* annotation the engine wrote issues no patch for the target.
C7_PatchOnceThenIntact ==
    [][ (rc.pc = "sched" /\ rc'.pc # "sched") =>
          /\ lastCall'.op = "patch" =>
                /\ IsNextRun(lastCall'.val, now)
                /\ lastCall'.key = CurPod.key
                /\ ~(CurPod.byEngine /\ CurPod.restartAt.kind = "ts")
          /\ CurPod.restartAt = NoAnn =>
                (lastCall'.op = "patch" \/ lastCall'.by = "invalid schedule")
      ]_vars

\* a later pass listed the annotation the engine wrote and went on to the timer
C7_Witness ==
    /\ rc.pc = "armCheck"
    /\ CurPod.byEngine
    /\ CurPod.restartAt = FormatRFC3339(rc.at)
    /\ cluster[CurPod.key].restartAt = CurPod.restartAt

C9_CancelledNeverRuns ==
    \A id \in TimerIds :
        timers[id].cx =>
            /\ timers[id].st = "stopped"
            /\ timers[id].evicts = 0
            /\ ~(lastCall.op = "evict" /\ lastCall.tid = id)

\* a cancelled timer, after the latest instant it could have fired at
C9_Witness ==
    \E id \in TimerIds : timers[id].cx /\ now > timers[id].at + JitterMax

\* C10: once Shutdown has run stopPendingTimers the timer map is empty and
\* stays empty, also while a reconcile pass is still running.
C10_NoTimerAfterShutdown ==
    sd \in {"waitLoop", "waitWg", "done", "failed"} =>
        \A k \in Keys : pendingTimers[k] = 0


\* ---- the in-flight counter and the timer map ----
\* the timer holds a unit of inFlightWg that has not been released
Held(id) == timers[id].st \in {"pending", "fired", "evicting"}

InMap(id) == \E k \in Keys : pendingTimers[k] = id

InFlightFor(k) ==
    {id \in TimerIds : timers[id].key = k /\ timers[id].st \in {"fired", "evicting"}}

C12_OneCallbackPerKey ==
    \A k \in Keys : Cardinality(InFlightFor(k)) <= 1


\* C16: called with a live context, Ping answers "not ready" until ready is
\* closed; afterwards it answers "stale" exactly when now minus the last
\* reconcile stamp is greater than 2 x interval, and success otherwise.
C16_PingLiveContext ==
    (lastCall.op = "ping" /\ ~lastCall.cancelled) =>
        /\ ~ready => lastCall.by = "not ready"
        /\ ready =>
              /\ lastCall.by \in {"stale", "ok"}
              /\ lastCall.by = "stale" <=> now - lastReconcileEndTime > 2 * Interval

\* a probe found the stamp older than 2 x interval
C16_Witness ==
    /\ lastCall.op = "ping"
    /\ ~lastCall.cancelled
    /\ lastCall.by = "stale"
    /\ lastCall.age = 2 * Interval + 1

\* a probe found the stamp exactly 2 x interval old and answered success
C16_WitnessEdge ==
    /\ lastCall.op = "ping"
    /\ ~lastCall.cancelled
    /\ lastCall.by = "ok"
    /\ lastCall.age = 2 * Interval

\* C17: Ping called with a cancelled context returns the context's error,
\* whether or not the service is ready and whatever the age of the stamp.
C17_PingCancelledContext ==
    (lastCall.op = "ping" /\ lastCall.cancelled) => lastCall.by = "ctx error"


\* C13: Shutdown first cancels the pending timers, then waits for the loop's
\* done signal, then waits for the in-flight counter to reach zero; it returns
\* success only after both waits have completed, and an error only when its
\* context expires during one of the two waits.
C13_ShutdownOrder ==
    [][ /\ (sd # "stop" /\ sd' = "stop") => (sd = "idle" /\ ~inShutdown /\ inShutdown')
        /\ (sd = "stop" /\ sd' # "stop") =>
              /\ sd' = "waitLoop"
              /\ \A k \in Keys : pendingTimers'[k] = 0
              /\ \A id \in TimerIds :
                    (InMap(id) /\ timers[id].st = "pending") => timers'[id].st = "stopped"
        /\ (sd = "waitLoop" /\ sd' # "waitLoop") =>
              \/ sd' = "waitWg" /\ doneCh
              \/ sd' = "failed"
        /\ (sd = "waitWg" /\ sd' # "waitWg") =>
              \/ sd' = "done" /\ doneCh /\ inFlightWg = 0
              \/ sd' = "failed"
        /\ (sd \in {"done", "failed"}) => sd' = sd
      ]_vars

\* Shutdown returned success after it had cancelled a pending timer
C13_Witness ==
    /\ sd = "done"
    /\ doneCh
    /\ inFlightWg = 0
    /\ \E id \in TimerIds : timers[id].cx

\* Shutdown returned an error from the wait for the evictions: the loop had
\* exited and a callback was still in its eviction call
C13_WitnessError ==
    /\ sd = "failed"
    /\ doneCh
    /\ \E id \in TimerIds : timers[id].st = "evicting"

\* C14: a second call of Shutdown returns nil and changes nothing: it
\* cancels no timer and waits for nothing.
C14_ShutdownIdempotent ==
    [][ (inShutdown /\ lastCall'.op = "shutdown") =>
          /\ lastCall' = ShutdownSkipped
          /\ UNCHANGED <<now, tickPending, ctxDone, inShutdown, ready, doneCh,
                         lastReconcileEndTime, podCfg, cluster, pods, rc, timers,
                         nextTimer, pendingTimers, inFlightWg, sd>>
      ]_vars

\* a second call returned while a timer callback was still running
C14_Witness ==
    /\ lastCall = ShutdownSkipped
    /\ sd = "failed"
    /\ inFlightWg > 0

\* C15: once Shutdown has cancelled the timers and the loop has exited,
\* Shutdown waits only for callbacks that have started: no timer that has not
\* fired yet holds the in-flight counter.
C15_NoWaitForUnfiredTimer ==
    (sd = "waitWg") => \A id \in TimerIds : timers[id].st # "pending"


\* ---- the positions of the reconcile goroutine inside a target's handlers ----
HandlerPcs == {"sched", "missedResp", "patchResp", "armCheck", "armLock",
               "thr", "metricsResp", "evictResp"}

\* C18: a reconcile pass returns an error if and only if listing the targets
\* fails; no answer to a target's handler, failures included, ends the pass
\* or skips a target, and after a pass, failed or not, the loop waits for the
\* tick and runs the next pass.
C18_OnlyListErrorFailsPass ==
    [][ /\ (rc.pc = "list" /\ rc'.pc # "list") =>
              IF lastCall'.err
              THEN rc'.pc = "endpass" /\ rc'.ret = "error"
              ELSE rc'.ret # "error"
        /\ (rc.pc \notin {"list", "endpass"} /\ rc'.pc = "endpass") => rc'.ret = "nil"
        /\ (rc.pc = "pod" /\ rc'.pc # "pod" /\ ~ctxDone) =>
              /\ rc'.pc \in HandlerPcs \cup {"pace"}
              /\ rc'.i = rc.i
              /\ pods' = pods
        /\ (rc.pc \in HandlerPcs /\ rc'.pc # rc.pc) =>
              /\ rc'.pc \in HandlerPcs \cup {"pace"}
              /\ rc'.i = rc.i
              /\ pods' = pods
        /\ (rc.pc = "pace" /\ rc'.pc # "pace" /\ ~ctxDone) =>
              IF rc.i < Len(pods)
              THEN rc'.pc = "pod" /\ rc'.i = rc.i + 1 /\ pods' = pods
              ELSE rc'.pc = "endpass" /\ rc'.ret = "nil"
        /\ (rc.pc = "endpass" /\ rc'.pc # "endpass") =>
              rc'.pc = "wait" /\ lastReconcileEndTime' = now
        /\ (rc.pc = "wait" /\ rc'.pc # "wait" /\ ~ctxDone) =>
              rc'.pc = "list" /\ tickPending
      ]_vars

\* the handler of the first of two targets has just logged an error
C18_Witness ==
    /\ Len(pods) = 2
    /\ rc.i = 1
    /\ lastCall.err
    /\ lastCall.key = pods[1].key
    /\ rc.pc \in {"thr", "pace"}

\* a pass that failed at the listing has returned its error to the loop
C18_WitnessListFailed ==
    /\ rc.pc = "endpass"
    /\ rc.ret = "error"
    /\ lastCall = ListFailed

\* C19: evictPodCommand reports "evicted" only when the repository's
\* eviction succeeded, "not evicted" without an error when the repository
\* answered too-many-requests or not-found, and an error for any other
\* repository failure.
C19_EvictionFacade ==
    lastCall.op = "evictResp" =>
        /\ lastCall.evicted <=> lastCall.ans = "ok"
        /\ lastCall.ans \in {"toomany", "notfound"} => (~lastCall.evicted /\ ~lastCall.err)
        /\ lastCall.err <=> lastCall.ans \notin {"ok", "toomany", "notfound"}
        /\ lastCall.evicted => cluster[lastCall.key].evicted

\* a rate-limited eviction was reported as not evicted, without an error
C19_Witness ==
    /\ lastCall.op = "evictResp"
    /\ lastCall.ans = "toomany"
    /\ ~lastCall.evicted
    /\ ~lastCall.err


\* C20: after the backend rate-limited an eviction of a target, by a pass or
\* by a timer callback, every pass that lists the target and finds it still
\* qualifying (restart-at in the past with the target created before it, or
\* usage above the threshold) requests the eviction again; the rate-limited
\* answer itself leaves the target and its restart-at as they were.
C20_RateLimitedRetried ==
    [][ /\ (rc.pc = "sched" /\ rc'.pc # "sched"
               /\ cluster[CurPod.key].limited # "" /\ IsMissed(CurPod, now)) =>
              lastCall' = EvictCall(CurPod.key, "missed", CurPod.createdAt, 0)
        /\ (rc.pc = "metricsResp" /\ rc'.pc # "metricsResp"
               /\ cluster[CurPod.key].limited # ""
               /\ lastCall'.usage # 0 /\ lastCall'.usage > rc.thr) =>
              /\ lastCall'.op = "evict"
              /\ lastCall'.key = CurPod.key
        /\ (lastCall'.op = "evictResp" /\ lastCall'.ans = "toomany") =>
              /\ cluster'[lastCall'.key].limited = lastCall'.by
              /\ cluster'[lastCall'.key].restartAt = cluster[lastCall'.key].restartAt
              /\ cluster'[lastCall'.key].createdAt = cluster[lastCall'.key].createdAt
              /\ cluster'[lastCall'.key].evicted = cluster[lastCall'.key].evicted
      ]_vars

\* a pass asks again for the eviction that a timer callback had rate-limited
C20_Witness ==
    /\ lastCall.op = "evict"
    /\ lastCall.by = "missed"
    /\ cluster[lastCall.key].limited = "timer"
    /\ ~cluster[lastCall.key].evicted
    /\ \E id \in TimerIds :
          timers[id].key = lastCall.key /\ timers[id].st = "done" /\ timers[id].evicts = 1

\* a pass asks again for the threshold eviction that was rate-limited
C20_WitnessThreshold ==
    /\ lastCall.op = "evict"
    /\ lastCall.by = "threshold"
    /\ cluster[lastCall.key].limited = "threshold"
    /\ ~cluster[lastCall.key].evicted

\* C21: passes of the one reconcile loop never overlap and the targets of a
\* pass are handled strictly one after another: a pass begins (the list call
\* is reached) only from the boot or the tick wait, with no target of an
\* earlier pass left; the current target changes only at the list answer or
\* at the end of the pacing wait, to the next index; every repository call of
\* the reconciler names the current target.  A tick that arrives while a
\* pass is running is held until the pass has ended.
C21_PassesAndTargetsSequential ==
    [][/\ (rc'.pc = "list" /\ rc.pc # "list") =>
             (rc.pc \in {"boot", "wait"} /\ pods = <<>> /\ rc.i = 0)
       /\ (rc'.i # rc.i /\ rc'.i # 0) =>
             (rc.pc \in {"list", "pace"} /\ rc'.i = rc.i + 1 /\ rc'.pc = "pod")
       /\ (rc'.i # rc.i /\ rc'.i = 0) => (rc'.pc = "endpass" /\ pods' = <<>>)
       /\ (lastCall'.op \in {"metrics", "patch", "evict"}
             /\ lastCall'.by \in {"threshold", "schedule", "missed"}) =>
             (rc.pc \in HandlerPcs /\ rc.i \in 1..Len(pods)
                /\ lastCall'.key = pods[rc.i].key)]_vars

\* a tick arrived while the second target of a pass was being handled
C21_Witness ==
    /\ tickPending
    /\ rc.pc \in HandlerPcs
    /\ rc.i = 2
    /\ lastCall.op \in {"metrics", "patch", "evict"}

\* C22: the only annotation write of the engine is the restart-at patch with
\* an RFC3339 instant: every patch names the restart-at key and carries a
\* value that parses as RFC3339; a stored restart-at changes only by the
\* answer to such a patch (to a parseable instant) or because the target was
\* recreated after an eviction; no other annotation of a target changes.
C22_OnlyRestartAtPatched ==
    [][/\ lastCall'.op = "patch" =>
             /\ lastCall'.ann = PreoomkillerAnnotationRestartAtKey
             /\ ParseRFC3339(lastCall'.val)[1]
       /\ \A k \in Keys :
             cluster'[k].restartAt # cluster[k].restartAt =>
                \/ cluster[k].evicted /\ ~cluster'[k].evicted
                \/ /\ rc.pc = "patchResp"
                   /\ pods[rc.i].key = k
                   /\ ParseRFC3339(cluster'[k].restartAt)[1]
       /\ podCfg' = podCfg]_vars

\* the engine replaced an unparseable restart-at by an instant
C22_Witness ==
    \E k \in Keys :
       /\ cluster[k].byEngine
       /\ ParseRFC3339(cluster[k].restartAt)[1]
       /\ rc.pc = "armCheck"

\* C25: for a percentage p with 0 < p <= 100 and a positive limit L the
\* resolver returns exactly floor(L * p / 100) bytes; a percentage p <= 0 or
\* p > 100 is rejected with a parse error.
C25_PercentIsFloor ==
    (lastCall.op = "resolve" /\ lastCall.tann.kind = "pct") =>
        LET p == lastCall.tann.n
            L == lastCall.limit
        IN /\ (p <= 0 \/ p > percentScale) => lastCall.res = "parseErr"
           /\ (0 < p /\ p <= percentScale /\ L.set /\ L.bytes > 0) =>
                 /\ lastCall.res = "ok"
                 /\ lastCall.thr = (L.bytes * p) \div percentScale

\* the case that shows the divergence: 58% of a limit of 50 bytes
C25_Witness ==
    /\ lastCall.op = "resolve"
    /\ lastCall.tann = [kind |-> "pct", n |-> 58]
    /\ lastCall.limit = [set |-> TRUE, bytes |-> 50]
    /\ lastCall.res = "ok"
    /\ lastCall.thr = 28

\* C23: a target whose threshold annotation is a percentage (0 < p <= 100)
\* while its memory limit is absent or zero is not evicted by the threshold
\* handler, and neither is one whose threshold resolves to zero bytes: the
\* resolver answers "no limit" for every such percentage, and on either
\* outcome the handler ends for the target with no metrics query, no
\* eviction request and no error.
C23_NoLimitOrZeroThresholdSkips ==
    [][/\ \A ann \in ThresholdAnns, limit \in MemoryLimits :
             (ann.kind = "pct" /\ 0 < ann.n /\ ann.n <= percentScale
                /\ (~limit.set \/ limit.bytes = 0)) =>
                 resolveMemoryThreshold(ann, limit).st = "noLimit"
       /\ (rc.pc = "thr" /\ rc'.pc # "thr") =>
             lastCall'.res \in {"noLimit", "ok", "parseErr"}
       /\ (lastCall'.by = "threshold"
             /\ (lastCall'.res = "noLimit"
                   \/ (lastCall'.res = "ok" /\ lastCall'.thr = 0))) =>
             /\ rc.pc = "thr"
             /\ lastCall'.op = "none"
             /\ ~lastCall'.err
             /\ rc'.pc = "pace"
             /\ cluster' = cluster]_vars

\* the handler skipped a target for its missing limit
C23_Witness ==
    /\ lastCall.by = "threshold"
    /\ lastCall.res = "noLimit"
    /\ rc.pc = "pace"

\* the handler skipped a target for its zero threshold
C23_WitnessZero ==
    /\ lastCall.by = "threshold"
    /\ lastCall.res = "ok"
    /\ lastCall.thr = 0
    /\ rc.pc = "pace"

\* C24: when the metrics of the target are not found, or the reported memory
\* usage is absent or zero, the threshold handler skips the target: the
\* metrics query answers "skip" without error for every such report, and on
\* a skip the handler ends for the target with no eviction request and no
\* error.
C24_NoMetricsSkips ==
    [][/\ \A m \in MetricsResults :
             (m.st = "notfound" \/ (m.st = "ok" /\ (~m.set \/ m.bytes = 0))) =>
                 (getPodMemoryUsageOrSkip(m)[2] /\ ~getPodMemoryUsageOrSkip(m)[3])
       /\ (rc.pc = "metricsResp" /\ rc'.pc # "metricsResp") =>
             (lastCall'.res = "skip" <=> (lastCall'.usage = 0 /\ ~lastCall'.err))
       /\ (lastCall'.by = "threshold" /\ lastCall'.res = "skip") =>
             /\ rc.pc = "metricsResp"
             /\ lastCall'.op = "none"
             /\ ~lastCall'.err
             /\ rc'.pc = "pace"
             /\ cluster' = cluster]_vars

\* the handler skipped a target for its metrics
C24_Witness ==
    /\ lastCall.by = "threshold"
    /\ lastCall.res = "skip"
    /\ lastCall.thr > 0
    /\ rc.pc = "pace"

\* ---- the transitions of the application state ----
Chain == {<<StateInit, StateStarting>>, <<StateStarting, StateRunning>>,
          <<StateRunning, StateTerminating>>, <<StateTerminating, StateTerminated>>}
Setters == {"SetStarting", "SetRunning", "SetTerminating"}

\* C26 (as stated): the application state changes only along Init ->
\* Starting -> Running -> Terminating -> Terminated; a request for any other
\* transition is rejected with an error and leaves the state unchanged;
\* Terminated is absorbing.
C26_OnlyAlongChain ==
    [][/\ state' # state => <<state, state'>> \in Chain
       /\ (appCall'.op \in Setters /\ appCall'.from = state) =>
             /\ appCall'.err = NoErr => <<state, state'>> \in Chain
             /\ appCall'.err # NoErr => state' = state
       /\ state = StateTerminated => state' = StateTerminated]_vars

\* C26 (amended): the same, except that SetTerminating is accepted in every
\* state but Terminated: Terminating is also entered from Init and from
\* Starting, and requesting it again while Terminating succeeds and changes
\* nothing.  SetStarting is accepted only in Init, SetRunning only in
\* Starting; every rejected request returns an error and leaves the state
\* unchanged; Terminated is absorbing.
C26_ChainOrToTerminating ==
    [][/\ state' # state =>
             <<state, state'>> \in Chain \cup {<<StateInit, StateTerminating>>,
                                               <<StateStarting, StateTerminating>>}
       /\ (appCall'.op \in Setters /\ appCall'.from = state) =>
             /\ appCall'.err = NoErr <=>
                   \/ appCall'.op = "SetStarting" /\ state = StateInit
                   \/ appCall'.op = "SetRunning" /\ state = StateStarting
                   \/ appCall'.op = "SetTerminating" /\ state # StateTerminated
             /\ appCall'.err # NoErr => state' = state
             /\ (appCall'.err = NoErr /\ state' = state) =>
                   (appCall'.op = "SetTerminating" /\ state = StateTerminating)
       /\ state = StateTerminated => state' = StateTerminated]_vars

\* a request was rejected after the application had terminated
C26_Witness ==
    /\ state = StateTerminated
    /\ appCall = Returned("SetStarting", StateTerminated, ErrInvalidStateTransition)

\* Terminating was entered from Init
C26_WitnessFromInit ==
    /\ state = StateTerminating
    /\ appCall = Returned("SetTerminating", StateInit, NoErr)

\* C27: AppState.Shutdown is idempotent: called again after the state has
\* reached Terminated it returns no error and leaves the state Terminated.
C27_ShutdownIdempotent ==
    (appCall.op = "Shutdown" /\ appCall.from = StateTerminated) =>
        (appCall.err = NoErr /\ state = StateTerminated)

\* Shutdown returned for a call made in the Terminated state
C27_Witness ==
    /\ appCall.op = "Shutdown"
    /\ appCall.from = StateTerminated
    /\ state = StateTerminated

\* C28: GracefulShutdown calls Shutdown once on every registered component,
\* in reverse registration order, goes on after a component fails, and hands
\* every component a context that is not cancelled even when the caller's
\* is; it returns nil if and only if every component returned nil, and
\* otherwise the join of the errors of the components that failed, in the
\* order they were called.
C28_GracefulShutdownOrder ==
    /\ \A j \in 1..Len(graceful.called) :
          /\ graceful.called[j].c = graceful.n - j + 1
          /\ ~graceful.called[j].cx
    /\ graceful.pc = "returned" =>
          /\ Len(graceful.called) = graceful.n
          /\ JoinErrors(graceful.errs) = NoErr <=>
                \A j \in 1..Len(graceful.called) : ~graceful.called[j].failed
          /\ \A j \in 1..Len(graceful.called) :
                graceful.called[j].failed <=>
                   \E e \in 1..Len(graceful.errs) : graceful.errs[e] = graceful.called[j].c
          /\ \A e \in 1..Len(graceful.errs) :
                e > 1 => graceful.errs[e] < graceful.errs[e - 1]

\* every component was called although the first one failed and the
\* caller's context is cancelled
C28_Witness ==
    /\ graceful.pc = "returned"
    /\ graceful.n = MaxShutdowners
    /\ ctxDone
    /\ graceful.called[1].failed
    /\ ~graceful.called[2].failed
    /\ Len(graceful.called) = MaxShutdowners

\* C29: the channel returned by allChannelsClose is closed once, and only
\* after every input channel has been closed; with no input channel it is
\* closed by the call itself; when every goroutine has finished it is
\* closed, whether the context was cancelled or not.
C29_OutClosedOnceAfterAll ==
    /\ allClose.out <= 1
    /\ allClose.out = 1 => \A c \in 1..allClose.count : allClose.cs[c]
    /\ (allClose.called /\ allClose.count = 0) => allClose.out = 1
    /\ (allClose.called /\ \A c \in 1..allClose.count : allClose.g[c] = "done") =>
          allClose.out = 1

\* out was closed after the last of several inputs, under a cancelled context
C29_Witness ==
    /\ allClose.out = 1
    /\ allClose.count = MaxChannels
    /\ ctxDone
    /\ \A c \in 1..allClose.count : allClose.g[c] = "done"

\* C30: once cancellation is observed inside a reconcile pass the pass
\* returns without error and issues no further repository call: at the
\* check before a target a cancelled context always ends the pass, with a
\* nil result, no call, and no target left to iterate; a pass that ends in
\* the pacing wait with targets remaining does so because the context is
\* cancelled, with a nil result; and the reconciler issues metrics, patch and
\* eviction calls only from inside a target's handlers, never after the
\* pass has ended.
C30_CancelEndsPass ==
    [][/\ (rc.pc = "pod" /\ ctxDone /\ rc' # rc) =>
             /\ rc'.pc = "endpass"
             /\ rc'.ret = "nil"
             /\ pods' = <<>>
             /\ lastCall'.op = "none"
       /\ (rc.pc = "pace" /\ rc'.pc = "endpass" /\ rc.i < Len(pods)) =>
             /\ ctxDone
             /\ rc'.ret = "nil"
             /\ pods' = <<>>
             /\ lastCall'.op = "none"
       /\ (lastCall'.op \in {"metrics", "patch", "evict"}
             /\ lastCall'.by \in {"threshold", "schedule", "missed"}) =>
             (rc.pc \in HandlerPcs /\ pods # <<>>)
       /\ rc'.pc \in {"endpass", "wait", "exited"} => pods' = <<>>]_vars

\* the first pass was cancelled before any target was touched
C30_Witness ==
    /\ ctxDone
    /\ rc.pc = "endpass"
    /\ rc.ret = "nil"
    /\ lastReconcileEndTime = BootTime
    /\ \A k \in Keys :
          /\ podCfg[k].hasSched
          /\ ~cluster[k].byEngine
          /\ ~cluster[k].evicted
          /\ cluster[k].limited = ""


\* C31: in the recompute path a timer is armed only after restart-at has been
\* patched successfully with the same instant: a cron parse error is followed
\* by no patch and no timer, a failed patch by no timer, and the handler
\* reaches scheduleEviction only from a future restart-at it listed or from
\* the successful patch, with the instant it patched.
C31_ArmOnlyAfterPatch ==
    [][ /\ (rc.pc = "sched" /\ lastCall'.by = "invalid schedule") =>
              /\ lastCall'.op # "patch"
              /\ rc'.pc \in {"thr", "pace"}
              /\ UNCHANGED <<cluster, timers, nextTimer, pendingTimers, inFlightWg>>
        /\ (rc.pc = "patchResp" /\ rc'.pc # "patchResp") =>
              /\ UNCHANGED <<timers, nextTimer, pendingTimers, inFlightWg>>
              /\ IF lastCall'.err
                 THEN /\ rc'.pc \in {"thr", "pace"}
                      /\ cluster' = cluster
                 ELSE /\ rc'.pc = "armCheck"
                      /\ rc'.at = rc.at
                      /\ cluster'[CurPod.key].restartAt = FormatRFC3339(rc.at)
        /\ (rc'.pc = "armCheck" /\ rc.pc # "armCheck") =>
              \/ rc.pc = "patchResp" /\ ~lastCall'.err
              \/ rc.pc = "sched" /\ CurPod.restartAt = FormatRFC3339(rc'.at)
        /\ (rc'.pc = "armLock" /\ rc.pc # "armLock") =>
              (rc.pc = "armCheck" /\ rc'.at = rc.at)
        /\ nextTimer' # nextTimer =>
              /\ rc.pc = "armLock"
              /\ nextTimer' = nextTimer + 1
              /\ timers'[nextTimer'].at = rc.at
              /\ timers'[nextTimer'].key = CurPod.key
      ]_vars

\* a timer was armed for the instant the pass had just patched
C31_Witness ==
    /\ lastCall.by = "scheduled"
    /\ CurPod.restartAt # FormatRFC3339(timers[lastCall.tid].at)
    /\ cluster[CurPod.key].restartAt = FormatRFC3339(timers[lastCall.tid].at)
    /\ cluster[CurPod.key].byEngine

\* the patch failed and the handler left the target without a timer
C31_WitnessPatchFailed ==
    /\ lastCall = Failure(lastCall.key, "set restart-at annotation")
    /\ pendingTimers[lastCall.key] = 0
    /\ nextTimer = 0


\* C32: a timer callback that starts after the shutdown flag has been set
\* issues no eviction: it deletes the map entry of its key, releases its one
\* unit of the in-flight counter and returns.
C32_CallbackInShutdownAbandons ==
    [][ \A id \in TimerIds :
          (inShutdown /\ timers[id].st = "fired" /\ timers'[id] # timers[id]) =>
              /\ timers'[id].st = "done"
              /\ timers'[id].evicts = timers[id].evicts
              /\ lastCall'.op # "evict"
              /\ cluster' = cluster
              /\ inFlightWg' = inFlightWg - 1
              /\ pendingTimers' = [pendingTimers EXCEPT ![timers[id].key] = 0]
      ]_vars

\* the timer had fired when Shutdown set the flag; its callback returned
\* without an eviction while Shutdown was waiting
C32_Witness ==
    /\ inShutdown
    /\ sd \in {"waitLoop", "waitWg"}
    /\ inFlightWg = 0
    /\ \E id \in TimerIds :
          /\ timers[id].st = "done"
          /\ timers[id].evicts = 0
          /\ ~timers[id].cx


\* ---- the tasks of the service and their repository calls ----
Tasks == {ReconcileTask, ShutdownTask} \cup {TimerTask(id) : id \in TimerIds}

Holds(task) == locks.timerMu = task \/ locks.mu = task

\* the task has sent a repository call and has not got its answer
InCall(task) ==
    \/ task = ReconcileTask /\ rc.pc \in {"missedResp", "patchResp", "metricsResp", "evictResp"}
    \/ \E id \in TimerIds : task = TimerTask(id) /\ timers[id].st = "evicting"

\* the task that issued the repository call of the last step
Issuer == IF lastCall.by = "timer" THEN TimerTask(lastCall.tid) ELSE ReconcileTask

\* C33: no task holds the timer-map mutex or the reconcile-clock lock while
\* it has a repository call in progress, and no repository call is issued by
\* a task that holds one of them.
C33_NoLockAcrossRepositoryCall ==
    /\ \A task \in Tasks : Holds(task) => ~InCall(task)
    /\ lastCall.op \in {"list", "patch", "evict", "metrics"} => ~Holds(Issuer)

\* a callback holds timerMu for its delete, after its eviction call, while
\* the reconcile pass has an eviction request in progress
C33_Witness ==
    /\ \E id \in TimerIds : locks.timerMu = TimerTask(id) /\ timers[id].evicts = 1
    /\ rc.pc = "missedResp"

\* the pass holds timerMu inside scheduleEviction while a callback has its
\* eviction call in progress
C33_WitnessReconcile ==
    /\ locks.timerMu = ReconcileTask
    /\ \E id \in TimerIds : timers[id].st = "evicting"


\* C34: ready is closed once, by RunCommand at boot and only together with a
\* stamp of the reconcile clock; it stays closed, and a Ping that evaluates
\* staleness finds ready closed and the clock stamped.
C34_ReadyOnceAfterStamp ==
    [][ /\ ready => ready'
        /\ (~ready /\ ready') =>
              /\ rc.pc = "boot"
              /\ lastReconcileEndTime' = now
              /\ lastReconcileEndTime' # 0
        /\ rc'.pc = "boot" => (~ready /\ rc.pc \in {"idle", "boot"})
        /\ ready' => lastReconcileEndTime' # 0
        /\ (lastCall'.op = "ping" /\ lastCall'.by \in {"stale", "ok"}) =>
              /\ ready
              /\ lastReconcileEndTime # 0
              /\ lastCall'.age = now - lastReconcileEndTime
      ]_vars

\* a probe evaluated staleness before the first pass had ended, against the
\* stamp taken at boot
C34_Witness ==
    /\ lastCall.op = "ping"
    /\ lastCall.by = "ok"
    /\ ready
    /\ lastReconcileEndTime = BootTime
    /\ rc.pc = "list"
    /\ lastCall.age = now - BootTime


\* C35 as stated: the reconcile clock is stamped when a reconcile pass starts
\* and when it ends, for every pass of the loop.
C35_StampedAtStartAndEnd ==
    [][ /\ (rc'.pc = "list" /\ rc.pc # "list") => lastReconcileEndTime' = now
        /\ (rc.pc = "endpass" /\ rc'.pc # "endpass") => lastReconcileEndTime' = now
      ]_vars

\* C35 amended: the reconcile clock is stamped once at boot, before the first
\* pass starts, and when each pass ends, whatever the pass returned; a pass
\* that a tick starts leaves the clock at the end of the pass before it.
C35_StampedAtBootAndEnd ==
    [][ /\ (rc.pc = "boot" /\ rc'.pc # "boot") =>
              (rc'.pc = "list" /\ lastReconcileEndTime' = now)
        /\ (rc.pc = "endpass" /\ rc'.pc # "endpass") =>
              (rc'.pc = "wait" /\ lastReconcileEndTime' = now)
        /\ (rc'.pc = "wait" /\ rc.pc # "wait") => rc.pc = "endpass"
        /\ (rc.pc = "wait" /\ rc'.pc = "list") =>
              lastReconcileEndTime' = lastReconcileEndTime
        /\ lastReconcileEndTime' # lastReconcileEndTime => rc.pc \in {"boot", "endpass"}
      ]_vars

\* a tick started a pass while the clock held the end of the pass before it
C35_Witness ==
    /\ rc.pc = "list"
    /\ lastReconcileEndTime > BootTime
    /\ lastReconcileEndTime < now


\* C36: for a target that carries both the schedule and the threshold
\* annotation, the schedule handler of a reconcile pass only arms a timer: it
\* asks for no eviction, so that the only eviction request of the pass for the
\* target is the threshold handler's.
C36_SchedulePathOnlyArms ==
    \A k \in Keys :
        (podCfg[k].hasSched /\ podCfg[k].hasThr) =>
            ~(lastCall.op = "evict" /\ lastCall.key = k /\ lastCall.by = "missed")

\* the threshold handler asks for the eviction of a target whose missed
\* schedule the same pass has just asked to evict (the answer to that request
\* was too-many-requests and is the last answer the target got)
C36_SecondRequestInPass ==
    /\ lastCall.op = "evict"
    /\ lastCall.by = "threshold"
    /\ cluster[lastCall.key].limited = "missed"
    /\ IsMissed(CurPod, now)


\* C37: after a target has been recreated under the same namespace/name, the
\* restart scheduled for the previous instance is gone: a timer callback asks
\* for the eviction only of a target that carries the restart-at instant the
\* timer was armed for, which the new instance does not carry.
C37_TimerEvictsOnlyItsInstance ==
    (lastCall.op = "evict" /\ lastCall.by = "timer") =>
        cluster[lastCall.key].restartAt = FormatRFC3339(timers[lastCall.tid].at)


\* C38: while a timer armed for a key and a restart-at instant is pending or
\* its callback is running, the reconcile pass asks for no eviction of that
\* target for the same restart-at.
C38_NoMissedEvictionUnderTimer ==
    (lastCall.op = "evict" /\ lastCall.by = "missed") =>
        ~\E id \in TimerIds :
            /\ timers[id].key = lastCall.key
            /\ timers[id].st \in {"pending", "fired", "evicting"}
            /\ pendingTimers[lastCall.key] = id
            /\ FormatRFC3339(timers[id].at) = CurPod.restartAt


\* C39: the application state becomes Terminated only when a call of
\* AppState.Shutdown has called Shutdown on every registered shutdowner and
\* all of them returned nil; when a component's Shutdown fails,
\* AppState.Shutdown returns the error and the state stays Terminating.
C39_TerminatedOnlyAfterAllShutDown ==
    [][ /\ (state # StateTerminated /\ state' = StateTerminated) =>
              /\ graceful.pc = "returned"
              /\ {graceful.called[j].c : j \in 1..Len(graceful.called)} = 1..graceful.n
              /\ \A j \in 1..Len(graceful.called) : ~graceful.called[j].failed
              /\ appCall' = Returned("Shutdown", graceful.from, NoErr)
        /\ (graceful.pc = "returned" /\ graceful'.pc # "returned"
              /\ \E j \in 1..Len(graceful.called) : graceful.called[j].failed) =>
              /\ appCall'.op = "Shutdown"
              /\ appCall'.err = ErrShutdown
              /\ state = StateTerminating
              /\ state' = StateTerminating
      ]_vars

\* Shutdown returned the error of one of several components and left the
\* state Terminating
C39_Witness ==
    /\ appCall.op = "Shutdown"
    /\ appCall.err = ErrShutdown
    /\ state = StateTerminating
    /\ graceful.n >= 2
    /\ Len(graceful.errs) = 1
    /\ Len(graceful.called) = graceful.n

\* every registered component returned nil and the state is Terminated
C39_WitnessTerminated ==
    /\ appCall = Returned("Shutdown", StateRunning, NoErr)
    /\ state = StateTerminated
    /\ graceful.n >= 2
    /\ Len(graceful.called) = graceful.n


\* ---- what a step does to the timers ----
Armed == {id \in TimerIds : timers[id].st = "free" /\ timers'[id].st = "pending"}

Cancelled == {id \in TimerIds : timers[id].st = "pending" /\ timers'[id].st = "stopped"}

CallbackReturned ==
    {id \in TimerIds : timers[id].st \in {"fired", "evicting"} /\ timers'[id].st = "done"}

\* C40: every armed timer adds one to the in-flight counter, and exactly one
\* of its successful cancellation and the return of its callback takes that
\* one off again: the counter is never negative, and it is zero whenever no
\* timer is pending and no callback is running.
C40_InFlightCountsTimers ==
    [][ /\ inFlightWg' = inFlightWg + Cardinality(Armed) - Cardinality(Cancelled)
                           - Cardinality(CallbackReturned)
        /\ \A id \in TimerIds :
              /\ timers[id].st \in {"stopped", "done"} => timers'[id].st = timers[id].st
              /\ timers'[id].st = "stopped" => timers[id].st \in {"pending", "stopped"}
              /\ timers'[id].st = "done" => timers[id].st \in {"fired", "evicting", "done"}
              /\ timers'[id].st \in {"fired", "evicting"} =>
                    timers[id].st \in {"pending", "fired", "evicting"}
        /\ inFlightWg' >= 0
        /\ (\A id \in TimerIds : timers'[id].st \notin {"pending", "fired", "evicting"}) =>
              inFlightWg' = 0
      ]_vars

\* one timer has run its callback and another one was cancelled by Shutdown:
\* the counter is back at zero
C40_Witness ==
    /\ inFlightWg = 0
    /\ \E id \in TimerIds : timers[id].st = "stopped"
    /\ \E id \in TimerIds : timers[id].st = "done"

====
